---- MODULE Spec2Model ----
(***************************************************************************)
(* A model of the PlotEase / LightenPlot visualization helpers.            *)
(*                                                                         *)
(* The library is call-and-return: every action below is one public        *)
(* operation (a constructor, a method, a module function) executed         *)
(* atomically.  A Python exception is recorded in ret.status; an           *)
(* operation that raises leaves every assignment after the raise undone.   *)
(* Tables, series and dictionaries are modelled by value; floating-point   *)
(* statistics are modelled with exact integer arithmetic on scaled values. *)
(***************************************************************************)
EXTENDS Integers, Sequences, FiniteSets, TLC

VARIABLES
    wrappers,   \* slot -> a VisualizationBase object, or None
    style,      \* the process-wide matplotlib style (plt.style.use)
    series,     \* the pandas Series handed to the statistics helpers
    table,      \* the DataFrame handed to the correlation helpers
    models,     \* ModelComparator._models (model_comp.py), insertion-ordered
    comparator, \* a comparator.py ModelComparator, or None
    composer,   \* a PlotComposer, or None
    plotobjs,   \* the BasePlot objects the caller holds, by name
    wrapped,    \* what the function under handle_plot_errors does when called
    logfile,    \* the entries of the error log file, oldest first
    figures,    \* the numbers of the open matplotlib figures (plt.get_fignums)
    context,    \* the plot_context the caller is inside, or None
    validator,  \* a DataValidator, or None
    ret         \* what the last operation returned or raised

vars == <<wrappers, style, series, table, models, comparator, composer, plotobjs,
         wrapped, logfile, figures, context, validator, ret>>

(***************************************************************************)
(* Python values                                                           *)
(***************************************************************************)
None == [kind |-> "None"]

\* a missing cell (NaN / None inside a pandas column)
NaN == -1

\* what an operation that has not run yet has returned
NoRet == [op |-> "none", status |-> "ok"]

Abs(x) == IF x < 0 THEN -x ELSE x

RECURSIVE SumSeq(_)
SumSeq(s) == IF s = <<>> THEN 0 ELSE s[1] + SumSeq(Tail(s))

\* s without its k-th element
RemoveAt(s, k) == [m \in 1..(Len(s) - 1) |-> IF m < k THEN s[m] ELSE s[m + 1]]

(***************************************************************************)
(* Bounds of the wrapper model                                             *)
(***************************************************************************)
MaxRows == 2

\* the column labels a table may carry, in order
ColumnNames == <<"a">>

CellValues == {0, 1}

Slots == {1, 2}

\* the classes a caller constructs directly; a DiagnosticPlotter is also
\* constructed inside every PlotEase
Classes == {"PlotEase", "QuickPlotter"}

\* 'neon' stands for any name outside the lookup table of _apply_theme
Themes == {"default", "dark", "neon"}

(***************************************************************************)
(* pandas.DataFrame, as far as the wrappers look at it: the row count (the *)
(* index), and the columns, each a sequence of nrows cells.                *)
(***************************************************************************)
DataFrame(nrows, ncols, fill) ==
    [kind |-> "DataFrame", nrows |-> nrows,
     cols |-> [c \in 1..ncols |-> [r \in 1..nrows |-> fill]]]

DataFrames ==
    {DataFrame(n, c, v) : n \in 0..MaxRows, c \in 0..Len(ColumnNames), v \in CellValues}

\* values a caller may pass that are not DataFrames: None, [], [1,2,3], {'mpg': [21, 22]}
NonFrames ==
    {[kind |-> "NoneType", nrows |-> 0, cols |-> <<>>],
     [kind |-> "list", nrows |-> 0, cols |-> <<>>],
     [kind |-> "list", nrows |-> 3, cols |-> <<>>],
     [kind |-> "dict", nrows |-> 1, cols |-> <<>>]}

DataInputs == DataFrames \cup NonFrames

isinstance_DataFrame(data) == data.kind = "DataFrame"

\* DataFrame.empty: true when any axis has length 0
df_empty(df) == df.nrows = 0 \/ Len(df.cols) = 0

df_len(df) == df.nrows

\* DataFrame.equals: same shape and the same cell in every position
\* (missing cells in the same position count as equal)
df_equals(a, b) ==
    /\ a.nrows = b.nrows
    /\ Len(a.cols) = Len(b.cols)
    /\ \A c \in 1..Len(a.cols) : \A r \in 1..a.nrows : a.cols[c][r] = b.cols[c][r]

(***************************************************************************)
(* plotease/base.py: VisualizationBase                                     *)
(***************************************************************************)
\* _validate_data: the exception it raises, or "ok"
VB_validate_data_swapped(data) ==
    IF data.nrows = 0 THEN "ValueError"
    ELSE IF ~isinstance_DataFrame(data) THEN "TypeError"
    ELSE IF df_empty(data) THEN "ValueError"
    ELSE "ok"

VB_validate_data(data) ==
    IF ~isinstance_DataFrame(data) THEN "TypeError"
    ELSE IF df_empty(data) THEN "ValueError"
    ELSE "ok"

\* _apply_theme: the style name handed to plt.style.use
VB_style_name(theme) ==
    CASE theme = "default" -> "seaborn-v0_8-darkgrid"
      [] theme = "minimal" -> "seaborn-v0_8-whitegrid"
      [] theme = "dark" -> "dark_background"
      [] theme = "colorful" -> "seaborn-v0_8-bright"
      [] OTHER -> "default"

\* the object VisualizationBase.__init__ leaves behind
VB_object(cls, data, theme) ==
    [kind |-> "wrapper", cls |-> cls, data |-> data, theme |-> theme,
     diagnostic |-> None, summary |-> None, plotter |-> None, comparator |-> None]

\* PlotEase.__init__ after super().__init__: the composed components
PlotEase_object(data, theme) ==
    [kind |-> "wrapper", cls |-> "PlotEase", data |-> data, theme |-> theme,
     diagnostic |-> [kind |-> "DiagnosticPlotter", data |-> data, theme |-> theme],
     summary |-> [kind |-> "SummaryGenerator", data |-> data],
     plotter |-> [kind |-> "QuickPlotter", data |-> data, theme |-> theme],
     comparator |-> None]

\* __eq__
VB_eq_rows_only(a, b) ==
    a.kind = "wrapper" /\ b.kind = "wrapper" /\ df_len(a.data) = df_len(b.data)

VB_eq(a, b) ==
    IF b.kind # "wrapper" THEN FALSE
    ELSE df_equals(a.data, b.data) /\ a.theme = b.theme

\* __len__
VB_len(a) == df_len(a.data)

\* Python's bool, as a value that can stand next to NotImplemented
PyBool(b) == IF b THEN "True" ELSE "False"

\* PlotEase.__lt__: NotImplemented when other is not a PlotEase
PlotEase_lt_le(a, b) ==
    IF b.kind # "wrapper" \/ b.cls # "PlotEase" THEN "NotImplemented"
    ELSE PyBool(df_len(a.data) <= df_len(b.data))

PlotEase_lt(a, b) ==
    IF b.kind # "wrapper" \/ b.cls # "PlotEase" THEN "NotImplemented"
    ELSE PyBool(df_len(a.data) < df_len(b.data))

\* Python's a < b for two wrappers: a's __lt__ if its class has one (only
\* PlotEase does); no wrapper defines the reflected __gt__, so a
\* NotImplemented answer ends in TypeError
Wrapper_lt(a, b) ==
    IF a.cls = "PlotEase" /\ PlotEase_lt(a, b) # "NotImplemented"
    THEN PlotEase_lt(a, b)
    ELSE "TypeError"

WrapIdle == series = <<>> /\ table = <<>> /\ models = <<>>
            /\ comparator = None /\ composer = None /\ plotobjs = <<>>
            /\ wrapped = None /\ logfile = <<>> /\ figures = {} /\ context = None /\ validator = None

WrapRest == <<series, table, models, comparator, composer, plotobjs, wrapped,
             logfile, figures, context, validator>>

\* cls(data, theme): every subclass runs VisualizationBase.__init__ first;
\* a constructor that raises binds nothing and applies no style
Construct(s, cls, data, theme) ==
    LET err == VB_validate_data(data) IN
    /\ IF err = "ok"
       THEN /\ wrappers' = [wrappers EXCEPT ![s] =
                   IF cls = "PlotEase" THEN PlotEase_object(data, theme)
                   ELSE VB_object(cls, data, theme)]
            /\ style' = VB_style_name(theme)
       ELSE UNCHANGED <<wrappers, style>>
    /\ ret' = [op |-> "construct", status |-> err, data |-> data, theme |-> theme]
    /\ UNCHANGED WrapRest

\* set_theme(theme)
set_theme_unapplied(s, theme) ==
    /\ wrappers[s] # None
    /\ wrappers' = [wrappers EXCEPT ![s].theme = theme]
    /\ ret' = [op |-> "set_theme", status |-> "ok", theme |-> theme]
    /\ UNCHANGED style
    /\ UNCHANGED WrapRest

set_theme(s, theme) ==
    /\ wrappers[s] # None
    /\ wrappers' = [wrappers EXCEPT ![s].theme = theme]
    /\ style' = VB_style_name(theme)
    /\ ret' = [op |-> "set_theme", status |-> "ok", theme |-> theme]
    /\ UNCHANGED WrapRest

\* a == b, b == a, a < b and b < a evaluated on the two bound wrappers
Compare ==
    /\ wrappers[1] # None /\ wrappers[2] # None
    /\ ret' = [op |-> "compare", status |-> "ok",
               eq |-> VB_eq(wrappers[1], wrappers[2]),
               eq_rev |-> VB_eq(wrappers[2], wrappers[1]),
               lt |-> Wrapper_lt(wrappers[1], wrappers[2]),
               lt_rev |-> Wrapper_lt(wrappers[2], wrappers[1]),
               lt_self |-> Wrapper_lt(wrappers[1], wrappers[1])]
    /\ UNCHANGED <<wrappers, style>>
    /\ UNCHANGED WrapRest

WrapInit ==
    /\ wrappers = [s \in Slots |-> None]
    /\ style = "classic"
    /\ ret = NoRet
    /\ WrapIdle

\* the inputs _validate_data rejects: the constructor raises before it reads
\* the theme or binds a name, so one class, theme and slot stand for all
RejectedInputs == {d \in DataInputs : VB_validate_data(d) # "ok"}

WrapNext ==
    \/ \E s \in Slots, cls \in Classes, theme \in Themes :
           \E data \in DataInputs \ RejectedInputs : Construct(s, cls, data, theme)
    \/ \E cls \in Classes, data \in RejectedInputs : Construct(1, cls, data, "default")
    \/ \E s \in Slots, theme \in Themes : set_theme(s, theme)
    \/ Compare

WrapSpec == WrapInit /\ [][WrapNext]_vars

(***************************************************************************)
(* The statistics helpers.  A pandas Series is a sequence of cells, each a *)
(* natural number or NaN; the helpers look at one column at a time.        *)
(***************************************************************************)
MaxLen == 4

MaxRun == 10

MaxTail == 2

SmallValues == {1, 2, 5, NaN}

RunValues == {1, 2}

TailValues == {1, 2, NaN}

SeqsUpTo(S, n) == UNION {[1..k -> S] : k \in 0..n}

\* every short series, long series made of a run of one value and a short
\* tail, and the series the documentation works through
SeriesInputs ==
    SeqsUpTo(SmallValues, MaxLen)
    \cup {[i \in 1..k |-> v] \o t :
             k \in 1..MaxRun, v \in RunValues, t \in SeqsUpTo(TailValues, MaxTail)}
    \cup {<<1, 2, 3, 4, 5, 100>>, <<5, 5, 5, 5>>, <<1, 2, 3, NaN, 5>>}

\* Series.dropna()
RECURSIVE dropna(_)
dropna(s) ==
    IF s = <<>> THEN <<>>
    ELSE (IF s[1] = NaN THEN <<>> ELSE <<s[1]>>) \o dropna(Tail(s))

\* Series.count(): the number of non-missing cells
count(s) == Len(dropna(s))

\* Series.isnull().sum()
isnull_sum(s) == Len(s) - count(s)

\* x inserted into the ascending sequence s
RECURSIVE InsertAsc(_, _)
InsertAsc(x, s) ==
    IF s = <<>> THEN <<x>>
    ELSE IF x <= s[1] THEN <<x>> \o s
    ELSE <<s[1]>> \o InsertAsc(x, Tail(s))

RECURSIVE SortAsc(_)
SortAsc(s) == IF s = <<>> THEN <<>> ELSE InsertAsc(s[1], SortAsc(Tail(s)))

\* Series.quantile(k/4) of a series with at least one non-missing cell, times
\* 4: missing cells are skipped and the quantile is interpolated linearly
\* between the two order statistics around position (n-1)*k/4
quantile4(s, k) ==
    LET v == SortAsc(dropna(s))
        pos4 == (Len(v) - 1) * k
        lo == (pos4 \div 4) + 1
        frac4 == pos4 % 4
    IN  IF frac4 = 0 THEN 4 * v[lo]
        ELSE 4 * v[lo] + frac4 * (v[lo + 1] - v[lo])

\* Q1 - 1.5*IQR and Q3 + 1.5*IQR, times 8
lower_bound8(s) == 2 * quantile4(s, 1) - 3 * (quantile4(s, 3) - quantile4(s, 1))

upper_bound8(s) == 2 * quantile4(s, 3) + 3 * (quantile4(s, 3) - quantile4(s, 1))

\* (data < lower_bound) | (data > upper_bound) for one cell: a comparison
\* with NaN (a missing cell, or the quantile of an all-missing series) is False
iqr_flag_inclusive(x, s) ==
    IF x = NaN \/ count(s) = 0 THEN FALSE
    ELSE 8 * x <= lower_bound8(s) \/ 8 * x >= upper_bound8(s)

iqr_flag(x, s) ==
    IF x = NaN \/ count(s) = 0 THEN FALSE
    ELSE 8 * x < lower_bound8(s) \/ 8 * x > upper_bound8(s)

\* plotease/utils.py detect_outliers_iqr(data): a flag for every cell of data
detect_outliers_iqr(data) == [i \in 1..Len(data) |-> iqr_flag(data[i], data)]

\* n^2 * (n-1) * variance of the non-missing cells d: sum of (n*x - sum)^2
SumSqDev(d) ==
    LET n == Len(d)
        S == SumSeq(d)
    IN  SumSeq([i \in 1..n |-> (n * d[i] - S) * (n * d[i] - S)])

\* np.abs((data - data.mean()) / data.std()) > 3 for one cell of the
\* non-missing data d.  std() of fewer than two cells is NaN and a division
\* by a zero std gives NaN (0/0) without raising; NaN > 3 is False
zscore_flag(x, d) ==
    LET n == Len(d)
        S == SumSeq(d)
    IN  IF n < 2 \/ SumSqDev(d) = 0 THEN FALSE
        ELSE (n - 1) * (n * x - S) * (n * x - S) > 9 * SumSqDev(d)

\* the z-score branch of outlier_detection_plot
zscore_outliers_raising(d) ==
    IF Len(d) >= 2 /\ SumSqDev(d) = 0
    THEN [status |-> "ZeroDivisionError", flags |-> <<>>]
    ELSE [status |-> "ok", flags |-> [i \in 1..Len(d) |-> zscore_flag(d[i], d)]]

zscore_outliers(d) ==
    [status |-> "ok", flags |-> [i \in 1..Len(d) |-> zscore_flag(d[i], d)]]

\* the number of True flags (outliers.sum())
RECURSIVE flags_sum(_)
flags_sum(f) ==
    IF f = <<>> THEN 0 ELSE (IF f[1] THEN 1 ELSE 0) + flags_sum(Tail(f))

StatIdle == wrappers = [s \in Slots |-> None] /\ style = "classic" /\ table = <<>>
            /\ models = <<>> /\ comparator = None /\ composer = None /\ plotobjs = <<>>
            /\ wrapped = None /\ logfile = <<>> /\ figures = {} /\ context = None /\ validator = None

StatRest == <<wrappers, style, table, models, comparator, composer, plotobjs, wrapped,
             logfile, figures, context, validator>>

\* the column names of the one-column table {'x': series}
StatColumns == {"x"}

\* utils.detect_outliers_iqr(series)
DetectOutliersIqr ==
    /\ ret' = [op |-> "detect_outliers_iqr", status |-> "ok",
               flags |-> detect_outliers_iqr(series)]
    /\ UNCHANGED series
    /\ UNCHANGED StatRest

\* DiagnosticPlotter.outlier_detection_plot(column, method) on the table
\* {'x': series}: the flags are aligned to the non-missing cells
outlier_detection_plot(column, method) ==
    LET data == dropna(series)
        outliers == IF method = "iqr"
                    THEN [status |-> "ok",
                          flags |-> [i \in 1..Len(data) |-> iqr_flag(data[i], data)]]
                    ELSE zscore_outliers(data)
    IN  /\ ret' = IF column \notin StatColumns
                  THEN [op |-> "outlier_detection_plot", status |-> "ValueError",
                        column |-> column, method |-> method,
                        flags |-> <<>>, n_outliers |-> 0]
                  ELSE [op |-> "outlier_detection_plot", status |-> outliers.status,
                        column |-> column, method |-> method,
                        flags |-> outliers.flags,
                        n_outliers |-> flags_sum(outliers.flags)]
        /\ UNCHANGED series
        /\ UNCHANGED StatRest

\* the decimal text of num/den with the digits after the point cut where
\* scale says (10 for .1f, 100 for .2f), as the integer it shows without the
\* point: Python rounds the exact value to the nearest, a tie to the even digit
RoundHalfEven(num, den) ==
    LET q == num \div den
        r == num % den
    IN  IF 2 * r < den THEN q
        ELSE IF 2 * r > den THEN q + 1
        ELSE IF q % 2 = 0 THEN q ELSE q + 1

format_f(num, den, scale) == RoundHalfEven(scale * num, den)

\* f"{col.mean():.2f}": the mean of the non-missing cells, in hundredths;
\* the mean of no cells is nan
format_mean_all_rows(s) ==
    IF Len(s) = 0 THEN NaN ELSE format_f(SumSeq(dropna(s)), Len(s), 100)

format_mean(s) ==
    IF count(s) = 0 THEN NaN ELSE format_f(SumSeq(dropna(s)), count(s), 100)

\* f"{col.isnull().sum() / len(data) * 100:.1f}%", in tenths of a percent;
\* numpy's 0/0 on a table without rows is nan, not an exception
format_missing_pct(s) ==
    IF Len(s) = 0 THEN NaN ELSE format_f(100 * isnull_sum(s), Len(s), 10)

\* SummaryGenerator.summarize_numeric() on the table {'x': series}: the row
\* of the one numeric column (Std, Min, Max and Unique are left out)
summarize_numeric ==
    /\ ret' = [op |-> "summarize_numeric", status |-> "ok",
               Column |-> "x", Type |-> "Numeric",
               Count |-> count(series),
               Missing |-> isnull_sum(series),
               MissingPct |-> format_missing_pct(series),
               Mean |-> format_mean(series)]
    /\ UNCHANGED series
    /\ UNCHANGED StatRest

StatInit ==
    /\ series \in SeriesInputs
    /\ ret = NoRet
    /\ StatIdle

StatNext ==
    \/ DetectOutliersIqr
    \/ \E column \in {"x", "absent"}, method \in {"iqr", "zscore"} :
           outlier_detection_plot(column, method)
    \/ summarize_numeric

StatSpec == StatInit /\ [][StatNext]_vars

(***************************************************************************)
(* The correlation helpers.  A table is a sequence of columns, each with a *)
(* label, a dtype and its cells.  A Pearson correlation r is kept exactly  *)
(* as the pair (num, den2) with r = num / sqrt(den2); den2 = 0 is NaN, the *)
(* correlation pandas reports for a column of zero variance.               *)
(***************************************************************************)
MaxCorrCols == 3

ColumnLabels == <<"A", "B", "C", "D", "E">>

\* the cells a numeric column may hold (four rows)
NumericCells ==
    {<<1, 2, 3, 4>>, <<4, 3, 2, 1>>, <<1, 3, 2, 4>>, <<2, 1, 4, 3>>, <<1, 1, 1, 1>>}

ColumnChoices ==
    [dtype : {"float64"}, cells : NumericCells]
    \cup {[dtype |-> "object", cells |-> <<0, 0, 0, 0>>]}

CorrTables == SeqsUpTo(ColumnChoices, MaxCorrCols)

\* thresholds 0.5, 0.8 and 1.0 as fractions n/d
Thresholds == {[n |-> 1, d |-> 2], [n |-> 4, d |-> 5], [n |-> 1, d |-> 1]}

\* data.select_dtypes(include=[np.number]).columns: the positions of the
\* numeric columns, in table order
RECURSIVE numeric_from(_, _)
numeric_from(t, i) ==
    IF i > Len(t) THEN <<>>
    ELSE (IF t[i].dtype = "float64" THEN <<i>> ELSE <<>>) \o numeric_from(t, i + 1)

numeric_columns(t) == numeric_from(t, 1)

\* n*sum(x*y) - sum(x)*sum(y)
CoMoment(x, y) ==
    Len(x) * SumSeq([r \in 1..Len(x) |-> x[r] * y[r]]) - SumSeq(x) * SumSeq(y)

\* DataFrame.corr() for one pair of columns
pearson(x, y) ==
    LET den2 == CoMoment(x, x) * CoMoment(y, y)
    IN  IF den2 = 0 THEN [num |-> 0, den2 |-> 0]
        ELSE [num |-> CoMoment(x, y), den2 |-> den2]

isna(value) == value.den2 = 0

\* plotease/utils.py calculate_correlation_matrix(data): entry [i][j] is the
\* correlation of the i-th and j-th numeric column
calculate_correlation_matrix(t) ==
    LET nc == numeric_columns(t)
    IN  [i \in 1..Len(nc) |-> [j \in 1..Len(nc) |->
            pearson(t[nc[i]].cells, t[nc[j]].cells)]]

\* abs(a) >= abs(b) for two correlations that are not NaN
AbsGE(a, b) == a.num * a.num * b.den2 >= b.num * b.num * a.den2

\* abs(value) >= threshold
abs_ge_threshold_strict(value, th) ==
    value.num * value.num * th.d * th.d > th.n * th.n * value.den2

abs_ge_threshold(value, th) ==
    value.num * value.num * th.d * th.d >= th.n * th.n * value.den2

\* sorted(..., key=abs, reverse=True): descending, and stable
RECURSIVE InsertDescStable(_, _)
InsertDescStable(x, s) ==
    IF s = <<>> THEN <<x>>
    ELSE IF AbsGE(x.value, s[1].value) THEN <<x>> \o s
    ELSE <<s[1]>> \o InsertDescStable(x, Tail(s))

RECURSIVE sorted_by_abs_desc(_)
sorted_by_abs_desc(s) ==
    IF s = <<>> THEN <<>>
    ELSE InsertDescStable(s[1], sorted_by_abs_desc(Tail(s)))

\* the entry the scan appends at row i, column j of the matrix M over the
\* labels L: nothing when the upper triangle mask (row < column), NaN or the
\* threshold drops it
scan_entry(M, L, th, i, j) ==
    IF i < j /\ ~isna(M[i][j]) /\ abs_ge_threshold(M[i][j], th)
    THEN <<[v1 |-> L[i], v2 |-> L[j], value |-> M[i][j]]>>
    ELSE <<>>

\* for col in corr_matrix.columns: for idx in corr_matrix.index: ...
RECURSIVE scan_by_column(_, _, _, _, _)
scan_by_column(M, L, th, i, j) ==
    IF j > Len(M) THEN <<>>
    ELSE IF i > Len(M) THEN scan_by_column(M, L, th, 1, j + 1)
    ELSE scan_entry(M, L, th, i, j) \o scan_by_column(M, L, th, i + 1, j)

\* for i in range(n): for j in range(i+1, n): ...
RECURSIVE scan_by_row(_, _, _, _, _)
scan_by_row(M, L, th, i, j) ==
    IF i > Len(M) THEN <<>>
    ELSE IF j > Len(M) THEN scan_by_row(M, L, th, i + 1, i + 2)
    ELSE scan_entry(M, L, th, i, j) \o scan_by_row(M, L, th, i, j + 1)

\* the labels of the numeric columns, in table order
numeric_labels(t) ==
    [k \in 1..Len(numeric_columns(t)) |-> ColumnLabels[numeric_columns(t)[k]]]

\* the positions of s whose abs(value) no other position exceeds
MaxAbsPositions(s) ==
    {k \in 1..Len(s) : \A m \in 1..Len(s) : AbsGE(s[k].value, s[m].value)}

\* every arrangement of s in non-increasing order of abs(value): equal keys
\* may come out in any order
RECURSIVE DescendingArrangements(_)
DescendingArrangements(s) ==
    IF s = <<>> THEN {<<>>}
    ELSE UNION {{<<s[k]>> \o r : r \in DescendingArrangements(RemoveAt(s, k))} :
                   k \in MaxAbsPositions(s)}

CorrIdle == wrappers = [s \in Slots |-> None] /\ style = "classic" /\ series = <<>>
            /\ models = <<>> /\ comparator = None /\ composer = None /\ plotobjs = <<>>
            /\ wrapped = None /\ logfile = <<>> /\ figures = {} /\ context = None /\ validator = None

CorrRest == <<wrappers, style, series, models, comparator, composer, plotobjs, wrapped,
             logfile, figures, context, validator>>

\* utils.find_highly_correlated_pairs(table, threshold)
find_highly_correlated_pairs(th) ==
    /\ ret' = [op |-> "find_highly_correlated_pairs", status |-> "ok",
               threshold |-> th,
               pairs |-> sorted_by_abs_desc(
                   scan_by_column(calculate_correlation_matrix(table),
                                  numeric_labels(table), th, 1, 1))]
    /\ UNCHANGED table
    /\ UNCHANGED CorrRest

\* SummaryGenerator.correlation_summary(None, threshold): the bars it draws,
\* top to bottom.  With fewer than two numeric columns it draws a notice.
\* DataFrame.sort_values runs its default quicksort, which promises no order
\* among equal keys
correlation_summary(th) ==
    /\ IF Len(numeric_columns(table)) < 2
       THEN ret' = [op |-> "correlation_summary", status |-> "ok",
                    threshold |-> th, pairs |-> <<>>]
       ELSE \E sorted \in DescendingArrangements(
                    scan_by_row(calculate_correlation_matrix(table),
                                numeric_labels(table), th, 1, 2)) :
                ret' = [op |-> "correlation_summary", status |-> "ok",
                        threshold |-> th, pairs |-> sorted]
    /\ UNCHANGED table
    /\ UNCHANGED CorrRest

\* utils.calculate_correlation_matrix(table): the matrix and its index
correlation_matrix ==
    /\ ret' = [op |-> "calculate_correlation_matrix", status |-> "ok",
               index |-> numeric_labels(table),
               value |-> calculate_correlation_matrix(table)]
    /\ UNCHANGED table
    /\ UNCHANGED CorrRest

CorrInit ==
    /\ table \in CorrTables
    /\ ret = NoRet
    /\ CorrIdle

\* both helpers are functions of the table and the threshold alone, so a
\* behaviour is one call on the table drawn at the start
CorrNext ==
    \/ ret = NoRet /\ \E th \in Thresholds : find_highly_correlated_pairs(th)
    \/ ret = NoRet /\ \E th \in Thresholds : correlation_summary(th)
    \/ ret = NoRet /\ correlation_matrix

CorrSpec == CorrInit /\ [][CorrNext]_vars

(***************************************************************************)
(* plotease/model_comp.py: the mutable ModelComparator.  _models is a dict *)
(* in insertion order: a sequence of entries, each a model name and its    *)
(* metrics dict (a function from the metric names it defines to scores).   *)
(***************************************************************************)
MaxModels == 3

ModelLabels == <<"X", "Y", "Z", "W", "V">>

ModelNames == {ModelLabels[i] : i \in 1..MaxModels}

\* the metric names a caller may ask for; no model ever defines 'auc'
MetricNames == {"acc", "f1", "auc"}

\* the metrics dicts a model may come with (scores in tenths): {}, {'acc': 0.8},
\* {'acc': 0.9}, {'f1': 0.7}
MetricsChoices ==
    {<<>>, [m \in {"acc"} |-> 8], [m \in {"acc"} |-> 9], [m \in {"f1"} |-> 7]}

\* name in dict
HasKey(d, name) == \E i \in 1..Len(d) : d[i].name = name

\* the position of name in dict d
KeyIndex(d, name) == CHOOSE i \in 1..Len(d) : d[i].name = name

\* a list of pairs in place of the dict: every assignment appends
DictSet_appending(d, name, metrics) == Append(d, [name |-> name, metrics |-> metrics])

\* dict[name] = metrics: an existing key keeps its position
DictSet(d, name, metrics) ==
    IF HasKey(d, name)
    THEN [d EXCEPT ![KeyIndex(d, name)].metrics = metrics]
    ELSE Append(d, [name |-> name, metrics |-> metrics])

\* del dict[name]
DictDel(d, name) == RemoveAt(d, KeyIndex(d, name))

\* the (name, score) pairs of the models that define metric, in dict order
RECURSIVE model_scores(_, _)
model_scores(d, metric) ==
    IF d = <<>> THEN <<>>
    ELSE (IF metric \in DOMAIN d[1].metrics
          THEN <<[name |-> d[1].name, score |-> d[1].metrics[metric]]>>
          ELSE <<>>) \o model_scores(Tail(d), metric)

\* list.sort(key=score, reverse=True): descending, equal scores keep their order
RECURSIVE InsertByScoreDescUnstable(_, _)
InsertByScoreDescUnstable(x, s) ==
    IF s = <<>> THEN <<x>>
    ELSE IF x.score > s[1].score THEN <<x>> \o s
    ELSE <<s[1]>> \o InsertByScoreDescUnstable(x, Tail(s))

RECURSIVE InsertByScoreDesc(_, _)
InsertByScoreDesc(x, s) ==
    IF s = <<>> THEN <<x>>
    ELSE IF x.score >= s[1].score THEN <<x>> \o s
    ELSE <<s[1]>> \o InsertByScoreDesc(x, Tail(s))

RECURSIVE sort_by_score_desc(_)
sort_by_score_desc(s) ==
    IF s = <<>> THEN <<>> ELSE InsertByScoreDesc(s[1], sort_by_score_desc(Tail(s)))

\* list.sort(key=score, reverse=False): ascending, equal scores keep their order
RECURSIVE InsertByScoreAsc(_, _)
InsertByScoreAsc(x, s) ==
    IF s = <<>> THEN <<x>>
    ELSE IF x.score <= s[1].score THEN <<x>> \o s
    ELSE <<s[1]>> \o InsertByScoreAsc(x, Tail(s))

RECURSIVE sort_by_score_asc(_)
sort_by_score_asc(s) ==
    IF s = <<>> THEN <<>> ELSE InsertByScoreAsc(s[1], sort_by_score_asc(Tail(s)))

ModelIdle == wrappers = [s \in Slots |-> None] /\ style = "classic" /\ series = <<>>
             /\ table = <<>> /\ comparator = None /\ composer = None /\ plotobjs = <<>>
            /\ wrapped = None /\ logfile = <<>> /\ figures = {} /\ context = None /\ validator = None

ModelRest == <<wrappers, style, series, table, comparator, composer, plotobjs, wrapped,
             logfile, figures, context, validator>>

\* add_model(name, metrics)
add_model(name, metrics) ==
    /\ models' = DictSet(models, name, metrics)
    /\ ret' = [op |-> "add_model", status |-> "ok", name |-> name,
               metrics |-> metrics, held |-> HasKey(models, name)]
    /\ UNCHANGED ModelRest

\* remove_model(name): an absent name is reported on stdout, nothing raised
remove_model(name) ==
    /\ models' = IF HasKey(models, name) THEN DictDel(models, name) ELSE models
    /\ ret' = [op |-> "remove_model", status |-> "ok", name |-> name,
               held |-> HasKey(models, name)]
    /\ UNCHANGED ModelRest

\* ranking_plot(metric, ascending): the bars it draws with their rank
\* numbers, or a "not found" notice when no model defines the metric
ranking_plot(metric, ascending) ==
    LET scores == model_scores(models, metric)
        ranked == IF ascending THEN sort_by_score_asc(scores)
                  ELSE sort_by_score_desc(scores)
    IN  /\ ret' = [op |-> "ranking_plot", status |-> "ok", metric |-> metric,
                   ascending |-> ascending,
                   bars |-> ranked,
                   ranks |-> [k \in 1..Len(ranked) |-> k]]
        /\ UNCHANGED models
        /\ UNCHANGED ModelRest

\* plot(metric) with a metric: _plot_single_metric(metric), or a notice when
\* there are no models or none defines the metric
plot(metric) ==
    /\ ret' = [op |-> "plot", status |-> "ok", metric |-> metric,
               ascending |-> FALSE,
               bars |-> IF models = <<>> THEN <<>>
                        ELSE sort_by_score_desc(model_scores(models, metric)),
               ranks |-> <<>>]
    /\ UNCHANGED models
    /\ UNCHANGED ModelRest

\* len(comparator)
ModelComparator_len ==
    /\ ret' = [op |-> "len", status |-> "ok", value |-> Len(models)]
    /\ UNCHANGED models
    /\ UNCHANGED ModelRest

\* name in comparator
ModelComparator_contains(name) ==
    /\ ret' = [op |-> "contains", status |-> "ok", name |-> name,
               value |-> HasKey(models, name)]
    /\ UNCHANGED models
    /\ UNCHANGED ModelRest

ModelInit ==
    /\ models = <<>>
    /\ ret = NoRet
    /\ ModelIdle

ModelNext ==
    \/ \E name \in ModelNames, metrics \in MetricsChoices : add_model(name, metrics)
    \/ \E name \in ModelNames : remove_model(name)
    \/ \E metric \in MetricNames, ascending \in BOOLEAN : ranking_plot(metric, ascending)
    \/ \E metric \in MetricNames : plot(metric)
    \/ ModelComparator_len
    \/ \E name \in ModelNames : ModelComparator_contains(name)

ModelSpec == ModelInit /\ [][ModelNext]_vars

(***************************************************************************)
(* plotease/comparator.py: the ModelComparator built once from a results   *)
(* dict.  _df = pd.DataFrame(models_results).T has one row per model, in   *)
(* dict order, and one column per metric that some model defines.          *)
(***************************************************************************)
\* every results dict: distinct model names in any order, each with metrics
ResultsDicts ==
    {d \in SeqsUpTo([name : ModelNames, metrics : MetricsChoices], MaxModels) :
        \A i, j \in 1..Len(d) : i # j => d[i].name # d[j].name}

\* _df.columns
df_columns(d) == UNION {DOMAIN d[i].metrics : i \in 1..Len(d)}

\* ModelComparator(models_results)
ModelComparator(models_results) ==
    [kind |-> "ModelComparator", models_results |-> models_results,
     columns |-> df_columns(models_results)]

\* _df[metric].idxmax(): the first row, in row order, that holds the largest
\* score of the column; rows without the metric (NaN) are skipped
idxmax_last(d, metric) ==
    LET rows == model_scores(d, metric)
        k == CHOOSE i \in 1..Len(rows) :
                 /\ \A j \in 1..Len(rows) : rows[j].score <= rows[i].score
                 /\ \A j \in (i + 1)..Len(rows) : rows[j].score < rows[i].score
    IN  rows[k].name

idxmax(d, metric) ==
    LET rows == model_scores(d, metric)
        k == CHOOSE i \in 1..Len(rows) :
                 /\ \A j \in 1..Len(rows) : rows[j].score <= rows[i].score
                 /\ \A j \in 1..(i - 1) : rows[j].score < rows[i].score
    IN  rows[k].name

BestIdle == wrappers = [s \in Slots |-> None] /\ style = "classic" /\ series = <<>>
            /\ table = <<>> /\ models = <<>> /\ composer = None /\ plotobjs = <<>>
            /\ wrapped = None /\ logfile = <<>> /\ figures = {} /\ context = None /\ validator = None

BestRest == <<wrappers, style, series, table, models, composer, plotobjs, wrapped,
             logfile, figures, context, validator>>

\* get_best_model(metric)
get_best_model(metric) ==
    /\ ret' = IF metric \notin comparator.columns
              THEN [op |-> "get_best_model", status |-> "ValueError",
                    metric |-> metric, value |-> ""]
              ELSE [op |-> "get_best_model", status |-> "ok", metric |-> metric,
                    value |-> idxmax(comparator.models_results, metric)]
    /\ UNCHANGED comparator
    /\ UNCHANGED BestRest

BestInit ==
    /\ comparator \in {ModelComparator(d) : d \in ResultsDicts}
    /\ ret = NoRet
    /\ BestIdle

BestNext == \E metric \in MetricNames : get_best_model(metric)

BestSpec == BestInit /\ [][BestNext]_vars

(***************************************************************************)
(* LightenPlot/composer.py: PlotComposer, and the BasePlot objects of      *)
(* LightenPlot/core.py and plots.py it is handed.  A plot object records   *)
(* the arguments of its last create() and the axes it draws on: 0 is the   *)
(* axes of its own figure, i > 0 the i-th cell of the composer's figure.   *)
(***************************************************************************)
MaxGrid == 2

\* a ScatterPlot and a LinePlot; both take create(x, y, ...)
PlotIds == {"scatter", "line"}

\* BasePlot.__init__
BasePlot == [create_args |-> <<>>, ax |-> 0, theme |-> "default"]

\* PlotComposer(rows, cols): plt.subplots gives rows*cols axes
PlotComposer(rows, cols) ==
    [kind |-> "PlotComposer", rows |-> rows, cols |-> cols,
     axes |-> rows * cols, plots |-> <<>>, current_idx |-> 0,
     drawn |-> [c \in 1..(rows * cols) |-> ""]]

\* len(composer)
composer_len(c) == Len(c.plots)

ComposerIdle == wrappers = [s \in Slots |-> None] /\ style = "classic" /\ series = <<>>
                /\ table = <<>> /\ models = <<>> /\ comparator = None /\ wrapped = None /\ logfile = <<>> /\ figures = {} /\ context = None /\ validator = None

ComposerRest == <<wrappers, style, series, table, models, comparator, wrapped,
             logfile, figures, context, validator>>

\* the positional arguments a caller gives create: the two columns, either way
CreateArgs == {<<"x", "y">>, <<"y", "x">>}

\* ScatterPlot.create(x, y) / LinePlot.create(x, y): records the arguments
\* and draws on the axes the object currently holds
create(p, args) ==
    /\ plotobjs' = [plotobjs EXCEPT ![p].create_args = args]
    /\ composer' = IF plotobjs[p].ax = 0 THEN composer
                   ELSE [composer EXCEPT !.drawn[plotobjs[p].ax] = p]
    /\ ret' = [op |-> "create", status |-> "ok"]
    /\ UNCHANGED ComposerRest

\* add_plot(plot_obj): the composer after the call, or the exception
add_plot_truncating(c, p) ==
    IF c.current_idx >= c.axes
    THEN [status |-> "ok", returns |-> "self", composer |-> c]
    ELSE [status |-> "ok", returns |-> "self",
          composer |-> [c EXCEPT !.plots = Append(@, p), !.current_idx = @ + 1]]

add_plot_stale_index(c, p) ==
    IF c.current_idx >= c.axes
    THEN [status |-> "ValueError", returns |-> "nothing", composer |-> c]
    ELSE [status |-> "ok", returns |-> "self",
          composer |-> [c EXCEPT !.plots = Append(@, p)]]

\* "return self" hands the caller the composer the call was made on
add_plot_result(c, p) ==
    IF c.current_idx >= c.axes
    THEN [status |-> "ValueError", returns |-> "nothing", composer |-> c]
    ELSE [status |-> "ok", returns |-> "self",
          composer |-> [c EXCEPT !.plots = Append(@, p), !.current_idx = @ + 1]]

add_plot(p) ==
    /\ composer' = add_plot_result(composer, p).composer
    /\ ret' = [op |-> "add_plot", status |-> add_plot_result(composer, p).status,
               returns |-> add_plot_result(composer, p).returns,
               before |-> composer]
    /\ UNCHANGED plotobjs
    /\ UNCHANGED ComposerRest

\* the loop of render() from plot number idx on: each plot is moved onto its
\* cell and its recorded create() is replayed; create() without the x and y
\* a never-created plot lacks raises TypeError and ends the loop
RECURSIVE render_from(_, _, _)
render_from(c, objs, idx) ==
    IF idx > Len(c.plots)
    THEN [status |-> "ok", composer |-> c, objs |-> objs, rendered |-> <<>>]
    ELSE IF idx > c.axes THEN render_from(c, objs, idx + 1)
    ELSE LET p == c.plots[idx]
             moved == [objs EXCEPT ![p].ax = idx]
         IN  IF objs[p].create_args = <<>>
             THEN [status |-> "TypeError", composer |-> c, objs |-> moved,
                   rendered |-> <<>>]
             ELSE [render_from([c EXCEPT !.drawn[idx] = p], moved, idx + 1)
                      EXCEPT !.rendered =
                          <<[cell |-> idx, plot |-> p, args |-> objs[p].create_args]>> \o @]

\* render(), and show() and save(filename), which render first
render(op) ==
    LET r == render_from(composer, plotobjs, 1) IN
    /\ composer' = r.composer
    /\ plotobjs' = r.objs
    /\ ret' = [op |-> op, status |-> r.status, rendered |-> r.rendered]
    /\ UNCHANGED ComposerRest

ComposerInit ==
    /\ composer \in {PlotComposer(r, c) : r \in 1..MaxGrid, c \in 1..MaxGrid}
    /\ plotobjs = [p \in PlotIds |-> BasePlot]
    /\ ret = NoRet
    /\ ComposerIdle

ComposerNext ==
    \/ \E p \in PlotIds, args \in CreateArgs : create(p, args)
    \/ \E p \in PlotIds : add_plot(p)
    \/ \E op \in {"render", "show", "save"} : render(op)

ComposerSpec == ComposerInit /\ [][ComposerNext]_vars

(***************************************************************************)
(* BasePlot.apply_theme (LightenPlot/core.py) on the caller's plot         *)
(* objects.  ThemeManager lives in LightenPlot/themes.py, which the        *)
(* repository imports and tests but does not contain: it is a lookup table *)
(* from theme names to themes whose get_theme raises ValueError for a name *)
(* that is not in the table.                                               *)
(***************************************************************************)
\* ThemeManager.list_themes(): the names the tests expect
KnownThemes == {"default", "dark", "minimal"}

\* the names a caller may pass; 'nonexistent' is no theme
ThemeNames == KnownThemes \cup {"nonexistent"}

\* ThemeManager.get_theme(name)
ThemeManager_get_theme(name) ==
    IF name \in KnownThemes THEN [status |-> "ok", theme |-> name]
    ELSE [status |-> "ValueError", theme |-> ""]

\* apply_theme(theme_name): the plot after the call, and how the call ended
apply_theme_assign_first(obj, theme_name) ==
    [status |-> ThemeManager_get_theme(theme_name).status,
     returns |-> IF ThemeManager_get_theme(theme_name).status = "ok"
                 THEN "self" ELSE "nothing",
     plot |-> [obj EXCEPT !.theme = theme_name]]

apply_theme_result(obj, theme_name) ==
    LET theme == ThemeManager_get_theme(theme_name) IN
    IF theme.status # "ok"
    THEN [status |-> theme.status, returns |-> "nothing", plot |-> obj]
    ELSE [status |-> "ok", returns |-> "self",
          plot |-> [obj EXCEPT !.theme = theme_name]]

apply_theme(p, theme_name) ==
    LET r == apply_theme_result(plotobjs[p], theme_name) IN
    /\ plotobjs' = [plotobjs EXCEPT ![p] = r.plot]
    /\ ret' = [op |-> "apply_theme", status |-> r.status, returns |-> r.returns,
               plot |-> p, theme_name |-> theme_name, before |-> plotobjs[p]]
    /\ UNCHANGED composer
    /\ UNCHANGED ComposerRest

\* the caller's plots before any composer exists
PlotInit ==
    /\ composer = None
    /\ plotobjs = [p \in PlotIds |-> BasePlot]
    /\ ret = NoRet
    /\ ComposerIdle

PlotNext ==
    \/ \E p \in PlotIds, args \in CreateArgs : create(p, args)
    \/ \E p \in PlotIds, theme_name \in ThemeNames : apply_theme(p, theme_name)

PlotSpec == PlotInit /\ [][PlotNext]_vars

(***************************************************************************)
(* The PlotEase facade (plotease/plotease.py) with the components it       *)
(* builds: DiagnosticPlotter (diagnostic.py), SummaryGenerator             *)
(* (SummaryGenerator.py), QuickPlotter (QuickPlotter.py) and, on demand,   *)
(* the ModelComparator of comparator.py.  The caller's tables carry the    *)
(* identity of the Python object (id) and a dtype per column; the facade   *)
(* lives in slot 1.                                                        *)
(***************************************************************************)
TableIds == {1, 2}

Dtypes == {"int64", "float64", "object", "bool"}

\* the column layouts of the caller's tables: no column at all, one integer
\* column, float and text, text and float and bool, integer and two floats
Schemas ==
    {<<>>, <<"int64">>, <<"float64", "object">>, <<"object", "float64", "bool">>,
     <<"int64", "float64", "float64">>}

FacadeTable(id, nrows, dtypes) ==
    [kind |-> "DataFrame", id |-> id, nrows |-> nrows,
     names |-> [c \in 1..Len(dtypes) |-> ColumnLabels[c]],
     dtypes |-> dtypes,
     cols |-> [c \in 1..Len(dtypes) |-> [r \in 1..nrows |-> 0]]]

\* the tables a caller holds: object i has i rows, in every layout
FacadeTables == {FacadeTable(i, i, d) : i \in TableIds, d \in Schemas}

\* the column names a caller may ask for; 'nope' is in no table
FacadeColumnNames == {"A", "B", "C", "nope"}

\* the themes given to the facade
FacadeThemes == {"default", "dark"}

\* name in df.columns, and its position
has_column(df, name) == \E c \in 1..Len(df.names) : df.names[c] = name

column_index(df, name) == CHOOSE c \in 1..Len(df.names) : df.names[c] = name

column_dtype(df, name) == df.dtypes[column_index(df, name)]

\* select_dtypes(include=[np.number]).columns: int and float columns, in
\* column order (bool is not a number)
select_number(df) ==
    LET in_number(c) == df.dtypes[c] \in {"int64", "float64"}
    IN  SelectSeq([c \in 1..Len(df.names) |-> c], in_number)

\* select_dtypes(include=['object', 'category']).columns
select_object_category(df) ==
    LET in_category(c) == df.dtypes[c] \in {"object", "category"}
    IN  SelectSeq([c \in 1..Len(df.names) |-> c], in_category)

NumericKeys ==
    {"Column", "Type", "Count", "Missing", "Missing %", "Mean", "Std", "Min", "Max", "Unique"}

CategoricalKeys ==
    {"Column", "Type", "Count", "Missing", "Missing %", "Unique", "Top Value", "Top Freq"}

\* summarize_numeric / summarize_categorical: one dict per selected column
summarize_numeric_rows(df) ==
    [k \in 1..Len(select_number(df)) |->
        [Column |-> df.names[select_number(df)[k]], Type |-> "Numeric",
         keys |-> NumericKeys]]

summarize_categorical_rows(df) ==
    [k \in 1..Len(select_object_category(df)) |->
        [Column |-> df.names[select_object_category(df)[k]], Type |-> "Categorical",
         keys |-> CategoricalKeys]]

\* tabular_summary(style): pd.DataFrame(summaries), one row per dict, its
\* columns the keys of the dicts
tabular_summary_categorical_first(df, tstyle) ==
    LET rows == (IF tstyle \in {"full", "categorical"}
                 THEN summarize_categorical_rows(df) ELSE <<>>) \o
                (IF tstyle \in {"full", "numeric"}
                 THEN summarize_numeric_rows(df) ELSE <<>>)
    IN  [rows |-> rows, columns |-> UNION {rows[k].keys : k \in 1..Len(rows)}]

tabular_summary_df(df, tstyle) ==
    LET rows == (IF tstyle \in {"full", "numeric"}
                 THEN summarize_numeric_rows(df) ELSE <<>>) \o
                (IF tstyle \in {"full", "categorical"}
                 THEN summarize_categorical_rows(df) ELSE <<>>)
    IN  [rows |-> rows, columns |-> UNION {rows[k].keys : k \in 1..Len(rows)}]

\* dtype in [np.number]: list membership compares dtype == np.number, and
\* numpy turns np.number into float64 for the comparison (with a
\* DeprecationWarning), so only a float64 column passes
dtype_in_np_number(dtype) == dtype = "float64"

\* QuickPlotter.detect_plot_type(x, y); y = "None" stands for None
detect_plot_type_result(df, x, y) ==
    IF y = "None"
    THEN IF dtype_in_np_number(column_dtype(df, x)) THEN "hist" ELSE "bar"
    ELSE IF dtype_in_np_number(column_dtype(df, x))
            /\ dtype_in_np_number(column_dtype(df, y))
         THEN "scatter" ELSE "bar"

\* get_data(): the attribute itself
get_data_copy(w) == [w.data EXCEPT !.id = 0]

get_data_value(w) == w.data

MaxPlotsArg == 7

\* n_rows = min(3, (max_plots + 1) // 2)
autoplot_n_rows(max_plots) ==
    IF (max_plots + 1) \div 2 < 3 THEN (max_plots + 1) \div 2 ELSE 3

\* autoplot with no test of plots_created < max_plots
autoplot_panels_uncapped(df, target, max_plots) ==
    LET n == Len(select_number(df))
        step(p, cond, kind) ==
            IF cond THEN Append(p, [kind |-> kind, position |-> Len(p) + 1]) ELSE p
        p1 == step(<<>>, n >= 1, "distributions")
        p2 == step(p1, n > 1, "correlations")
        p3 == step(p2, TRUE, "missing")
        p4 == step(p3, target # "None" /\ has_column(df, target), "target")
        p5 == step(p4, Len(select_object_category(df)) >= 1, "categories")
    IN  step(p5, n >= 1, "outliers")

\* autoplot(target, max_plots): the panels drawn, each with the index it
\* hands to plt.subplot(n_rows, 2, index)
autoplot_panels(df, target, max_plots) ==
    LET n == Len(select_number(df))
        step(p, cond, kind) ==
            IF cond /\ Len(p) < max_plots
            THEN Append(p, [kind |-> kind, position |-> Len(p) + 1]) ELSE p
        p1 == step(<<>>, n >= 1, "distributions")
        p2 == step(p1, n > 1, "correlations")
        p3 == step(p2, TRUE, "missing")
        p4 == step(p3, target # "None" /\ has_column(df, target), "target")
        p5 == step(p4, Len(select_object_category(df)) >= 1, "categories")
    IN  step(p5, n >= 1, "outliers")

\* the facade exists
Facade == wrappers[1]

\* the calls that only read the facade: get_data(), len(), render(),
\* tabular_summary(style), autoplot(target), detect_plot_type(x, y)
get_data ==
    /\ Facade # None
    /\ ret' = [op |-> "get_data", status |-> "ok", value |-> get_data_value(Facade)]
    /\ UNCHANGED <<wrappers, style>>
    /\ UNCHANGED WrapRest

len ==
    /\ Facade # None
    /\ ret' = [op |-> "len", status |-> "ok", value |-> VB_len(Facade)]
    /\ UNCHANGED <<wrappers, style>>
    /\ UNCHANGED WrapRest

facade_render ==
    /\ Facade # None
    /\ ret' = [op |-> "render", status |-> "ok", theme |-> Facade.theme]
    /\ UNCHANGED <<wrappers, style>>
    /\ UNCHANGED WrapRest

tabular_summary(tstyle) ==
    /\ Facade # None
    /\ ret' = [op |-> "tabular_summary", status |-> "ok", style |-> tstyle,
               value |-> tabular_summary_df(Facade.summary.data, tstyle)]
    /\ UNCHANGED <<wrappers, style>>
    /\ UNCHANGED WrapRest

\* a figure of height 0 (max_plots = 0) is refused by some backends
autoplot(target, max_plots) ==
    /\ Facade # None
    /\ \E status \in (IF autoplot_n_rows(max_plots) = 0 THEN {"ok", "ValueError"} ELSE {"ok"}) :
          ret' = [op |-> "autoplot", status |-> status,
                  target |-> target, max_plots |-> max_plots,
                  panels |-> autoplot_panels(Facade.diagnostic.data, target, max_plots),
                  value |-> Len(autoplot_panels(Facade.diagnostic.data, target, max_plots))]
    /\ UNCHANGED <<wrappers, style>>
    /\ UNCHANGED WrapRest

detect_plot_type(x, y) ==
    /\ Facade # None
    /\ LET df == Facade.plotter.data IN
       ret' = IF ~has_column(df, x) \/ (y # "None" /\ ~has_column(df, y))
              THEN [op |-> "detect_plot_type", status |-> "KeyError",
                    x |-> x, y |-> y, value |-> ""]
              ELSE [op |-> "detect_plot_type", status |-> "ok",
                    x |-> x, y |-> y, value |-> detect_plot_type_result(df, x, y)]
    /\ UNCHANGED <<wrappers, style>>
    /\ UNCHANGED WrapRest

\* quick_plot(x, y) with kind='auto': the kind detected is drawn; a bar plot
\* of y by x takes groupby(x)[y].mean(), which pandas refuses for an object
\* column y (TypeError, or DataError in older releases)
quick_plot(x, y) ==
    /\ Facade # None
    /\ LET df == Facade.plotter.data IN
       IF ~has_column(df, x) \/ (y # "None" /\ ~has_column(df, y))
       THEN ret' = [op |-> "quick_plot", status |-> "KeyError", value |-> ""]
       ELSE LET kind == detect_plot_type_result(df, x, y) IN
            IF kind = "bar" /\ y # "None" /\ column_dtype(df, y) = "object"
            THEN \E e \in {"TypeError", "DataError"} :
                    ret' = [op |-> "quick_plot", status |-> e, value |-> kind]
            ELSE ret' = [op |-> "quick_plot", status |-> "ok", value |-> kind]
    /\ UNCHANGED <<wrappers, style>>
    /\ UNCHANGED WrapRest

\* the results dicts a caller compares: {} and {'X': {'acc': 0.8}}
FacadeResults == {<<>>, <<[name |-> "X", metrics |-> [m \in {"acc"} |-> 8]]>>}

\* the metrics argument: None, or a list of one metric name
MetricsArgs == {"None", "acc", "auc"}

\* PlotEase.compare_models(models_results, metrics): the comparator is
\* assigned before ModelComparator.compare_models runs; that call returns at
\* once on empty results and raises KeyError at df[metrics] for a metric that
\* is no column
compare_models_once(results, metrics) ==
    /\ Facade # None
    /\ wrappers' = [wrappers EXCEPT ![1].comparator =
                       IF @ = None THEN ModelComparator(results) ELSE @]
    /\ ret' = [op |-> "compare_models", results |-> results,
               status |-> IF results # <<>> /\ metrics # "None"
                             /\ metrics \notin df_columns(results)
                          THEN "KeyError" ELSE "ok"]
    /\ UNCHANGED style
    /\ UNCHANGED WrapRest

compare_models(results, metrics) ==
    /\ Facade # None
    /\ wrappers' = [wrappers EXCEPT ![1].comparator = ModelComparator(results)]
    /\ ret' = [op |-> "compare_models", results |-> results,
               status |-> IF results # <<>> /\ metrics # "None"
                             /\ metrics \notin df_columns(results)
                          THEN "KeyError" ELSE "ok"]
    /\ UNCHANGED style
    /\ UNCHANGED WrapRest

\* pd.api.types.is_numeric_dtype: integers, floats and booleans
is_numeric_dtype(dtype) == dtype \in {"int64", "float64", "bool"}

\* validate_column_exists(data, column) for a DataFrame and one column name
validate_column_exists_result(df, column) ==
    IF ~has_column(df, column) THEN "ColumnNotFoundError" ELSE "ok"

\* validate_numeric_column without its first line: data[column] of an absent
\* column raises KeyError
validate_numeric_column_unchecked(df, column) ==
    IF ~has_column(df, column) THEN "KeyError"
    ELSE IF ~is_numeric_dtype(column_dtype(df, column)) THEN "DataValidationError"
    ELSE "ok"

validate_numeric_column_result(df, column) ==
    IF validate_column_exists_result(df, column) # "ok"
    THEN validate_column_exists_result(df, column)
    ELSE IF ~is_numeric_dtype(column_dtype(df, column)) THEN "DataValidationError"
    ELSE "ok"

\* validate_numeric_column(data, column) on the table the facade was given
validate_numeric_column(column) ==
    /\ Facade # None
    /\ ret' = [op |-> "validate_numeric_column", column |-> column,
               status |-> validate_numeric_column_result(Facade.data, column)]
    /\ UNCHANGED <<wrappers, style>>
    /\ UNCHANGED WrapRest

FacadeInit ==
    /\ wrappers = [s \in Slots |-> None]
    /\ style = "classic"
    /\ ret = NoRet
    /\ WrapIdle

FacadeNext ==
    \/ \E data \in FacadeTables, theme \in FacadeThemes :
           Construct(1, "PlotEase", data, theme)
    \/ \E theme \in FacadeThemes : set_theme(1, theme)
    \/ get_data
    \/ len
    \/ facade_render
    \/ \E tstyle \in {"full", "numeric", "categorical"} : tabular_summary(tstyle)
    \/ \E target \in FacadeColumnNames \cup {"None"}, max_plots \in 0..MaxPlotsArg :
           autoplot(target, max_plots)
    \/ \E x \in FacadeColumnNames, y \in FacadeColumnNames \cup {"None"} : detect_plot_type(x, y)
    \/ \E x \in FacadeColumnNames, y \in FacadeColumnNames \cup {"None"} : quick_plot(x, y)
    \/ \E results \in FacadeResults, metrics \in MetricsArgs : compare_models(results, metrics)
    \/ \E column \in FacadeColumnNames : validate_numeric_column(column)

FacadeSpec == FacadeInit /\ [][FacadeNext]_vars

(***************************************************************************)
(* Errorhandling/errors.py: the handle_plot_errors decorator.  The wrapped *)
(* function either returns a value or raises an exception; an exception is *)
(* its class, the text str() gives for it and the exception it was raised  *)
(* from.  Texts are sequences of characters; the fixed phrases of the      *)
(* library count as one character each (none contains q or a quote).       *)
(***************************************************************************)
MaxMsgLen == 2

\* the characters of the messages and keys the wrapped function raises with
MsgChars == {"q", "'", "\""}

Messages == SeqsUpTo(MsgChars, MaxMsgLen)

\* builtin and library exception classes, each with its base class
ExceptionClasses ==
    {"KeyboardInterrupt", "Exception", "LookupError", "KeyError", "IndexError",
     "ValueError", "UnicodeError", "TypeError", "RuntimeError",
     "LightenPlotError", "DataValidationError", "ColumnNotFoundError",
     "PlotCreationError", "InvalidParameterError", "EmptyDataError",
     "ExportError", "OSError", "PermissionError", "FileNotFoundError"}

BaseOf(cls) ==
    CASE cls \in {"KeyboardInterrupt", "Exception"} -> "BaseException"
      [] cls \in {"LookupError", "ValueError", "TypeError", "RuntimeError",
                  "LightenPlotError", "OSError"} -> "Exception"
      [] cls \in {"PermissionError", "FileNotFoundError"} -> "OSError"
      [] cls \in {"KeyError", "IndexError"} -> "LookupError"
      [] cls = "UnicodeError" -> "ValueError"
      [] OTHER -> "LightenPlotError"

\* issubclass(cls, base)
RECURSIVE issubclass(_, _)
issubclass(cls, base) ==
    IF cls = base THEN TRUE
    ELSE IF cls = "BaseException" THEN FALSE
    ELSE issubclass(BaseOf(cls), base)

\* repr() of a str: single quotes, unless the text holds a single quote and
\* no double quote; inside single quotes a single quote is escaped
RECURSIVE escape_single(_)
escape_single(t) ==
    IF t = <<>> THEN <<>>
    ELSE (IF t[1] = "'" THEN <<"\\", "'">> ELSE <<t[1]>>) \o escape_single(Tail(t))

py_repr(t) ==
    LET has_single == \E i \in 1..Len(t) : t[i] = "'"
        has_double == \E i \in 1..Len(t) : t[i] = "\""
    IN  IF has_single /\ ~has_double THEN <<"\"">> \o t \o <<"\"">>
        ELSE <<"'">> \o escape_single(t) \o <<"'">>

\* str(e): the message, and for a KeyError the repr of its key
py_str(cls, arg) == IF issubclass(cls, "KeyError") THEN py_repr(arg) ELSE arg

\* str.strip("'\"")
RECURSIVE lstrip_quotes(_)
lstrip_quotes(t) ==
    IF t # <<>> /\ t[1] \in {"'", "\""} THEN lstrip_quotes(Tail(t)) ELSE t

RECURSIVE rstrip_quotes(_)
rstrip_quotes(t) ==
    IF t # <<>> /\ t[Len(t)] \in {"'", "\""}
    THEN rstrip_quotes(SubSeq(t, 1, Len(t) - 1)) ELSE t

strip_quotes(t) == rstrip_quotes(lstrip_quotes(t))

\* what a call of the wrapped function may do
Returned(v) == [kind |-> "return", value |-> v]

Raised(cls, arg) ==
    [kind |-> "raise", cls |-> cls, str |-> py_str(cls, arg), cause |-> None]

Outcomes ==
    {Returned(v) : v \in {1, 2}}
    \cup {Raised(cls, arg) : cls \in ExceptionClasses, arg \in Messages}

\* LightenPlotError.__init__(message, suggestion) and _format_message
LightenPlotError(cls, message, suggestion, cause) ==
    [kind |-> "raise", cls |-> cls,
     str |-> IF suggestion # <<>>
             THEN message \o <<"\n Suggestion: ">> \o suggestion
             ELSE message,
     suggestion |-> suggestion,
     cause |-> cause]

\* ColumnNotFoundError(column, available_columns) with no available column
ColumnNotFoundError(column, cause) ==
    LightenPlotError("ColumnNotFoundError",
                     <<"Column ", "'">> \o column \o <<"'", " not found in data">>,
                     <<"Available columns: ">>, cause)

\* wrapper(*args, **kwargs): the except clauses in their order
wrapper_result(outcome) ==
    IF outcome.kind = "return" THEN outcome
    ELSE IF issubclass(outcome.cls, "LightenPlotError") THEN outcome
    ELSE IF issubclass(outcome.cls, "KeyError")
    THEN ColumnNotFoundError(strip_quotes(outcome.str), outcome)
    ELSE IF issubclass(outcome.cls, "ValueError")
    THEN LightenPlotError("DataValidationError", outcome.str,
             <<"Check your data format and parameter values">>, outcome)
    ELSE IF issubclass(outcome.cls, "TypeError")
    THEN LightenPlotError("InvalidParameterError", outcome.str,
             <<"Check parameter types match expected values">>, outcome)
    ELSE IF issubclass(outcome.cls, "Exception")
    THEN LightenPlotError("PlotCreationError",
             <<"Unexpected error during plot creation: ">> \o outcome.str,
             <<"This may be a bug. Please report it with your data structure.">>,
             outcome)
    ELSE outcome

\* safe_export's wrapper(*args, **kwargs), with only its first except clause
safe_export_io_only(outcome) ==
    IF outcome.kind = "return" THEN outcome
    ELSE IF issubclass(outcome.cls, "OSError")
    THEN LightenPlotError("ExportError",
             <<"Failed to save file: ">> \o outcome.str,
             <<"Check file path, permissions, and available disk space">>,
             outcome)
    ELSE outcome

\* safe_export's wrapper(*args, **kwargs); IOError is OSError
safe_export_result(outcome) ==
    IF outcome.kind = "return" THEN outcome
    ELSE IF issubclass(outcome.cls, "OSError")
    THEN LightenPlotError("ExportError",
             <<"Failed to save file: ">> \o outcome.str,
             <<"Check file path, permissions, and available disk space">>,
             outcome)
    ELSE IF issubclass(outcome.cls, "Exception")
    THEN LightenPlotError("ExportError",
             <<"Unexpected error during export: ">> \o outcome.str,
             <<"Ensure the file format is supported and the path is valid">>,
             outcome)
    ELSE outcome

ErrIdle == wrappers = [s \in Slots |-> None] /\ style = "classic" /\ series = <<>>
           /\ table = <<>> /\ models = <<>> /\ comparator = None /\ composer = None
           /\ plotobjs = <<>> /\ figures = {} /\ context = None /\ validator = None

ErrRest == <<wrappers, style, series, table, models, comparator, composer, plotobjs,
            figures, context, validator>>

\* one call of the decorated function
call_wrapper ==
    /\ ret' = [op |-> "wrapper", status |-> wrapper_result(wrapped).kind,
               outcome |-> wrapped, result |-> wrapper_result(wrapped)]
    /\ UNCHANGED <<wrapped, logfile>>
    /\ UNCHANGED ErrRest

\* one call of a function decorated with safe_export
call_safe_export ==
    /\ ret' = [op |-> "safe_export", status |-> safe_export_result(wrapped).kind,
               outcome |-> wrapped, result |-> safe_export_result(wrapped)]
    /\ UNCHANGED <<wrapped, logfile>>
    /\ UNCHANGED ErrRest

MaxLogEntries == 2

\* what open(log_file, 'a') and f.write do: succeed, or raise on opening
\* (no permission, no such directory) or on writing (disk full)
LogFileOutcomes ==
    {"ok", "open:PermissionError", "open:FileNotFoundError", "write:OSError"}

\* create_error_report(error, include_traceback=True), as the log entry
create_error_report(error) ==
    [type |-> error.cls, message |-> error.str, complete |-> TRUE]

\* log_error with no try around the file: the I/O error reaches the caller
log_error_unguarded(error, io) ==
    IF io = "ok" THEN Returned("None")
    ELSE Raised(IF io = "write:OSError" THEN "OSError"
                ELSE IF io = "open:PermissionError" THEN "PermissionError"
                ELSE "FileNotFoundError", <<>>)

\* log_error(error, log_file): what the call does to its caller
log_error_result(error, io) ==
    LET in_try == IF io = "ok" THEN Returned("None")
                  ELSE Raised(IF io = "write:OSError" THEN "OSError"
                              ELSE IF io = "open:PermissionError" THEN "PermissionError"
                              ELSE "FileNotFoundError", <<>>)
    IN  IF in_try.kind = "raise" /\ issubclass(in_try.cls, "Exception")
        THEN Returned("None")
        ELSE in_try

\* the caller, handling the error the wrapped function raised, logs it
log_error(io) ==
    /\ wrapped.kind = "raise"
    /\ Len(logfile) < MaxLogEntries
    /\ logfile' = IF io = "ok" THEN Append(logfile, create_error_report(wrapped))
                  ELSE IF io = "write:OSError"
                  THEN Append(logfile, [create_error_report(wrapped) EXCEPT !.complete = FALSE])
                  ELSE logfile
    /\ ret' = [op |-> "log_error", status |-> log_error_result(wrapped, io).kind,
               outcome |-> wrapped, io |-> io, result |-> log_error_result(wrapped, io)]
    /\ UNCHANGED wrapped
    /\ UNCHANGED ErrRest

ErrInit ==
    /\ wrapped \in Outcomes
    /\ logfile = <<>>
    /\ ret = NoRet
    /\ ErrIdle

ErrNext ==
    \/ call_wrapper
    \/ call_safe_export
    \/ \E io \in LogFileOutcomes : log_error(io)

ErrSpec == ErrInit /\ [][ErrNext]_vars

(***************************************************************************)
(* Errorhandling/errors.py: DataValidator.  The data is anything: None, a  *)
(* list, a numpy array of 0, 1 or 2 dimensions, or a table.  A recorded    *)
(* error is its class and what it is about.                                *)
(***************************************************************************)
MaxErrors == 3

\* the data a validator is built over
ValidatorData ==
    {None}
    \cup {[kind |-> "list", len |-> n] : n \in {0, 1}}
    \cup {[kind |-> "ndarray", ndim |-> 0, len |-> 1]}
    \cup {[kind |-> "ndarray", ndim |-> d, len |-> n] : d \in {1, 2}, n \in {0, 1}}
    \cup {FacadeTable(1, n, d) : n \in {0, 1},
                                 d \in {<<"int64">>, <<"object", "float64", "bool">>}}

\* the column lists given to check_columns and check_numeric
ColumnLists == {<<>>, <<"A">>, <<"nope", "B">>, <<"B", "A">>}

\* DataValidator(data)
DataValidator(data) == [kind |-> "DataValidator", data |-> data, errors |-> <<>>]

\* validate_data_not_empty(data): the class raised, or "ok"; len() of a
\* 0-dimensional array raises TypeError
validate_data_not_empty(data) ==
    IF data = None THEN "EmptyDataError"
    ELSE IF data.kind = "DataFrame"
    THEN (IF data.nrows = 0 \/ Len(data.names) = 0 THEN "EmptyDataError" ELSE "ok")
    ELSE IF data.kind = "ndarray" /\ data.ndim = 0 THEN "TypeError"
    ELSE IF data.len = 0 THEN "EmptyDataError" ELSE "ok"

\* validate_data_dimensions(data, expected_dims)
validate_data_dimensions(data, expected_dims) ==
    LET actual_dims == IF data = None THEN 1
                       ELSE IF data.kind = "DataFrame"
                       THEN (IF Len(data.names) > 1 THEN 2 ELSE 1)
                       ELSE IF data.kind = "ndarray" THEN data.ndim
                       ELSE 1
    IN  IF actual_dims # expected_dims THEN "DimensionMismatchError" ELSE "ok"

\* try: <validation> except LightenPlotError as e: self.errors.append(e)
record(errors, cls, about) ==
    IF cls = "ok" THEN errors
    ELSE IF issubclass(cls, "LightenPlotError")
    THEN Append(errors, [cls |-> cls, about |-> about])
    ELSE errors

\* the loop of check_columns / check_numeric over the columns from k on
RECURSIVE check_each(_, _, _, _, _)
check_each(numeric, data, errors, columns, k) ==
    IF k > Len(columns) THEN errors
    ELSE check_each(numeric, data,
             record(errors,
                    IF numeric THEN validate_numeric_column_result(data, columns[k])
                    ELSE validate_column_exists_result(data, columns[k]),
                    columns[k]),
             columns, k + 1)

\* a check_* method: the validator after it, and how the call ended
check_result(v, check, arg) ==
    LET cls == IF check = "check_not_empty" THEN validate_data_not_empty(v.data)
               ELSE IF check = "check_dimensions" THEN validate_data_dimensions(v.data, arg)
               ELSE "ok"
        errors == IF check \in {"check_columns", "check_numeric"}
                  THEN (IF v.data # None /\ v.data.kind = "DataFrame"
                        THEN check_each(check = "check_numeric", v.data, v.errors, arg, 1)
                        ELSE v.errors)
                  ELSE record(v.errors, cls,
                              IF check = "check_not_empty" THEN "data" ELSE "dimensions")
    IN  IF cls # "ok" /\ ~issubclass(cls, "LightenPlotError")
        THEN [status |-> cls, returns |-> "nothing", validator |-> v]
        ELSE [status |-> "ok", returns |-> "self",
              validator |-> [v EXCEPT !.errors = errors]]

\* validate() raising the error recorded last
validate_last(v) ==
    IF v.errors # <<>> THEN [status |-> "raise", error |-> v.errors[Len(v.errors)]]
    ELSE [status |-> "ok", error |-> None]

\* validate()
validate_result(v) ==
    IF v.errors # <<>> THEN [status |-> "raise", error |-> v.errors[1]]
    ELSE [status |-> "ok", error |-> None]

ValidatorIdle == wrappers = [s \in Slots |-> None] /\ style = "classic" /\ series = <<>>
                 /\ table = <<>> /\ models = <<>> /\ comparator = None /\ composer = None
                 /\ plotobjs = <<>> /\ wrapped = None /\ logfile = <<>> /\ figures = {} /\ context = None

ValidatorRest == <<wrappers, style, series, table, models, comparator, composer,
                  plotobjs, wrapped, logfile, figures, context>>

NewValidator(data) ==
    /\ validator' = DataValidator(data)
    /\ ret' = [op |-> "DataValidator", status |-> "ok"]
    /\ UNCHANGED ValidatorRest

check(name, arg) ==
    /\ validator # None
    /\ Len(validator.errors) < MaxErrors
    /\ validator' = check_result(validator, name, arg).validator
    /\ ret' = [op |-> name, arg |-> arg,
               status |-> check_result(validator, name, arg).status,
               returns |-> check_result(validator, name, arg).returns]
    /\ UNCHANGED ValidatorRest

validate ==
    /\ validator # None
    /\ ret' = [op |-> "validate", status |-> validate_result(validator).status,
               error |-> validate_result(validator).error]
    /\ UNCHANGED validator
    /\ UNCHANGED ValidatorRest

is_valid ==
    /\ validator # None
    /\ ret' = [op |-> "is_valid", status |-> "ok", value |-> (Len(validator.errors) = 0)]
    /\ UNCHANGED validator
    /\ UNCHANGED ValidatorRest

ValidatorInit ==
    /\ validator = None
    /\ ret = NoRet
    /\ ValidatorIdle

ValidatorNext ==
    \/ \E data \in ValidatorData : NewValidator(data)
    \/ check("check_not_empty", "data")
    \/ \E columns \in ColumnLists : check("check_columns", columns)
    \/ \E columns \in ColumnLists : check("check_numeric", columns)
    \/ \E expected_dims \in {1, 2} : check("check_dimensions", expected_dims)
    \/ validate
    \/ is_valid

ValidatorSpec == ValidatorInit /\ [][ValidatorNext]_vars

(***************************************************************************)
(* Errorhandling/errors.py: the plot_context context manager.  pyplot      *)
(* knows its open figures by number; plt.figure() opens a figure under the *)
(* number one above the highest open number, or 1 when none is open.       *)
(* The context also notes which of the open figures were opened since it   *)
(* was entered, which the code does not keep and the properties speak of.  *)
(***************************************************************************)
MaxFigures == 3

\* the exception the body of the with block ends with; "None" is a normal end
BodyExceptions == {"None", "ValueError", "KeyboardInterrupt"}

\* plot_context(cleanup_on_error).__enter__()
plot_context(cleanup_on_error, fignums) ==
    [kind |-> "plot_context", cleanup_on_error |-> cleanup_on_error,
     original_figures |-> fignums, opened |-> {}]

\* the number plt.figure() gives the next figure
next_fignum(fignums) ==
    IF fignums = {} THEN 1
    ELSE 1 + CHOOSE n \in fignums : \A m \in fignums : m <= n

\* __exit__(exc_type, exc_val, exc_tb): the figures left open, and the value
\* returned (False: the exception is not suppressed)
exit_result(ctx, exc_type, fignums) ==
    IF exc_type # "None" /\ ctx.cleanup_on_error
    THEN [suppress |-> FALSE, figures |-> fignums \ (fignums \ ctx.original_figures)]
    ELSE [suppress |-> FALSE, figures |-> fignums]

ContextIdle == wrappers = [s \in Slots |-> None] /\ style = "classic" /\ series = <<>>
               /\ table = <<>> /\ models = <<>> /\ comparator = None /\ composer = None
               /\ plotobjs = <<>> /\ wrapped = None /\ logfile = <<>> /\ validator = None

ContextRest == <<wrappers, style, series, table, models, comparator, composer,
                plotobjs, wrapped, logfile, validator>>

\* plt.figure(), inside or outside the with block
open_figure ==
    /\ next_fignum(figures) <= MaxFigures
    /\ figures' = figures \cup {next_fignum(figures)}
    /\ context' = IF context = None THEN context
                  ELSE [context EXCEPT !.opened = @ \cup {next_fignum(figures)}]
    /\ ret' = [op |-> "figure", status |-> "ok", num |-> next_fignum(figures)]
    /\ UNCHANGED ContextRest

\* plt.close(num) of an open figure, inside or outside the with block
close_figure(num) ==
    /\ num \in figures
    /\ figures' = figures \ {num}
    /\ context' = IF context = None THEN context
                  ELSE [context EXCEPT !.opened = @ \ {num}]
    /\ ret' = [op |-> "close", status |-> "ok", num |-> num]
    /\ UNCHANGED ContextRest

\* with plot_context(cleanup_on_error) as ctx:
enter(cleanup_on_error) ==
    /\ context = None
    /\ context' = plot_context(cleanup_on_error, figures)
    /\ ret' = [op |-> "enter", status |-> "ok"]
    /\ UNCHANGED figures
    /\ UNCHANGED ContextRest

\* the body of the block ends, normally or with exception exc_type
exit(exc_type) ==
    /\ context # None
    /\ figures' = exit_result(context, exc_type, figures).figures
    /\ context' = None
    /\ ret' = [op |-> "exit", status |-> "ok", exc_type |-> exc_type,
               cleanup_on_error |-> context.cleanup_on_error,
               suppress |-> exit_result(context, exc_type, figures).suppress,
               before |-> figures, opened |-> context.opened]
    /\ UNCHANGED ContextRest

ContextInit ==
    /\ figures = {}
    /\ context = None
    /\ ret = NoRet
    /\ ContextIdle

ContextNext ==
    \/ open_figure
    \/ \E num \in 1..MaxFigures : close_figure(num)
    \/ \E cleanup_on_error \in BOOLEAN : enter(cleanup_on_error)
    \/ \E exc_type \in BodyExceptions : exit(exc_type)

ContextSpec == ContextInit /\ [][ContextNext]_vars

(***************************************************************************)
(* Claims about the wrappers (checked under WrapSpec)                      *)
(***************************************************************************)
\* C1: a constructor call raises TypeError for every input that is not a
\* DataFrame (None, an empty or non-empty list, a dict), whatever its length,
\* so the type check comes before the emptiness check; it raises ValueError
\* for every DataFrame with zero rows; and for every non-empty DataFrame (at
\* least one row and one column, DataFrame.empty false) it succeeds and the
\* new wrapper holds that table.
C1_ConstructionValidation ==
    ret.op = "construct" =>
        /\ (ret.data.kind # "DataFrame" => ret.status = "TypeError")
        /\ (ret.data.kind = "DataFrame" /\ ret.data.nrows = 0
               => ret.status = "ValueError")
        /\ (ret.data.kind = "DataFrame" /\ ret.data.nrows > 0 /\ Len(ret.data.cols) > 0
               => /\ ret.status = "ok"
                  /\ \E s \in Slots : wrappers[s] # None /\ wrappers[s].data = ret.data)

\* C1 witness: with a wrapper already constructed, the constructor was called
\* with the empty list [] and raised TypeError, not ValueError
C1_Witness ==
    /\ ret.op = "construct"
    /\ ret.data.kind = "list" /\ ret.data.nrows = 0
    /\ ret.status = "TypeError"
    /\ wrappers[2] # None

\* C8: a == b holds exactly when the two tables are the same table value and
\* the two themes are the same; b == a gives the same answer; tables of
\* different row counts are never equal; and a set_theme that changes the
\* theme of one of two equal wrappers leaves them unequal.
C8_EqualityIsTableAndTheme ==
    /\ [](ret.op = "compare" =>
            /\ ret.eq = (wrappers[1].data = wrappers[2].data
                         /\ wrappers[1].theme = wrappers[2].theme)
            /\ ret.eq_rev = ret.eq
            /\ (wrappers[1].data.nrows # wrappers[2].data.nrows => ~ret.eq))
    /\ [][(/\ wrappers[1] # None /\ wrappers[2] # None
           /\ VB_eq(wrappers[1], wrappers[2])
           /\ ret'.op = "set_theme"
           /\ wrappers' # wrappers)
          => (~VB_eq(wrappers'[1], wrappers'[2]) /\ ~VB_eq(wrappers'[2], wrappers'[1]))]_vars

\* C8 witness: two wrappers of different classes over equal two-row tables
\* with the same theme have been compared and found equal
C8_Witness ==
    /\ ret.op = "compare"
    /\ ret.eq
    /\ wrappers[1].data.nrows = 2
    /\ wrappers[1].cls # wrappers[2].cls

\* C9: for two PlotEase facades a and b, a < b is True exactly when a's table
\* has strictly fewer rows than b's, and False otherwise; a < a is False and
\* a < b and b < a are never both True.
C9_LessThanIsRowCount ==
    (ret.op = "compare" /\ wrappers[1].cls = "PlotEase" /\ wrappers[2].cls = "PlotEase") =>
        /\ ret.lt = PyBool(wrappers[1].data.nrows < wrappers[2].data.nrows)
        /\ ret.lt_rev = PyBool(wrappers[2].data.nrows < wrappers[1].data.nrows)
        /\ ret.lt_self = "False"
        /\ ~(ret.lt = "True" /\ ret.lt_rev = "True")

\* C9 witness: two facades were compared and a < b came out True
C9_Witness ==
    /\ ret.op = "compare"
    /\ wrappers[1].cls = "PlotEase" /\ wrappers[2].cls = "PlotEase"
    /\ ret.lt = "True"

(***************************************************************************)
(* Claims about the statistics helpers (checked under StatSpec)            *)
(***************************************************************************)
\* the cells of d are all the same value
AllEqual(d) == \A i, j \in 1..Len(d) : d[i] = d[j]

\* x lies strictly outside [Q1 - 1.5*IQR, Q3 + 1.5*IQR] of the series d
StrictlyOutsideFences(x, d) ==
    LET Q1x4 == quantile4(d, 1)
        Q3x4 == quantile4(d, 3)
        IQRx4 == Q3x4 - Q1x4
    IN  \/ 8 * x < 2 * Q1x4 - 3 * IQRx4
        \/ 8 * x > 2 * Q3x4 + 3 * IQRx4

\* C2: both IQR detectors flag a cell exactly when it is a value strictly
\* below Q1 - 1.5*IQR or strictly above Q3 + 1.5*IQR, the quartiles taken
\* over the non-missing cells; a constant series gets no flag and no error;
\* [1,2,3,4,5,100] gets exactly its last cell flagged.
C2_IqrFlagsStrictlyOutside ==
    /\ (ret.op = "detect_outliers_iqr" =>
           /\ ret.status = "ok"
           /\ Len(ret.flags) = Len(series)
           /\ \A i \in 1..Len(series) :
                  ret.flags[i] = (series[i] # NaN /\ StrictlyOutsideFences(series[i], series))
           /\ (AllEqual(dropna(series)) => \A i \in 1..Len(series) : ~ret.flags[i])
           /\ (series = <<1, 2, 3, 4, 5, 100>>
                  => ret.flags = <<FALSE, FALSE, FALSE, FALSE, FALSE, TRUE>>))
    /\ ((ret.op = "outlier_detection_plot" /\ ret.method = "iqr" /\ ret.column = "x") =>
           LET d == dropna(series) IN
           /\ ret.status = "ok"
           /\ Len(ret.flags) = Len(d)
           /\ \A i \in 1..Len(d) : ret.flags[i] = StrictlyOutsideFences(d[i], d)
           /\ (AllEqual(d) => ret.n_outliers = 0)
           /\ (series = <<1, 2, 3, 4, 5, 100>>
                  => ret.flags = <<FALSE, FALSE, FALSE, FALSE, FALSE, TRUE>>))

\* C2 witness: on [1,1,1,1,2] both fences are 1, the cells equal to the
\* fence are not flagged and the 2 is
C2_Witness ==
    /\ ret.op = "detect_outliers_iqr"
    /\ series = <<1, 1, 1, 1, 2>>
    /\ ret.flags = <<FALSE, FALSE, FALSE, FALSE, TRUE>>

\* C4: the z-score detector raises nothing; when fewer than two cells are
\* non-missing, or all non-missing cells are equal (std 0), it flags nothing;
\* otherwise it flags exactly the cells with |value - mean| / std > 3, i.e.
\* (value - mean)^2 > 9 * variance with the sample variance (n-1 divisor).
C4_ZScoreDegenerateAndThreshold ==
    (ret.op = "outlier_detection_plot" /\ ret.method = "zscore" /\ ret.column = "x") =>
        LET d == dropna(series)
            n == Len(d)
            S == SumSeq(d)
        IN  /\ ret.status = "ok"
            /\ Len(ret.flags) = n
            /\ ((n < 2 \/ AllEqual(d)) => \A i \in 1..n : ~ret.flags[i])
            /\ (~(n < 2 \/ AllEqual(d)) =>
                   \A i \in 1..n :
                       ret.flags[i] =
                           ((n - 1) * (n * d[i] - S) * (n * d[i] - S) > 9 * SumSqDev(d)))

\* C4 witness: the z-score detector ran on the constant series [5,5,5,5]
\* (std 0) and returned normally with nothing flagged
C4_Witness ==
    /\ ret.op = "outlier_detection_plot" /\ ret.method = "zscore" /\ ret.column = "x"
    /\ series = <<5, 5, 5, 5>>
    /\ ret.status = "ok"
    /\ ret.n_outliers = 0

\* the z-score detector flagged a cell: ten 1s and one 2
ZScoreFlagsReached ==
    /\ ret.op = "outlier_detection_plot" /\ ret.method = "zscore"
    /\ ret.n_outliers > 0

\* C7 as stated: Count and Missing count the non-missing and the missing
\* cells, Missing % is Missing / rows * 100 to one decimal, and the reported
\* Mean is exactly the sum of the non-missing cells divided by Count.
C7_MeanIsExactQuotient ==
    ret.op = "summarize_numeric" =>
        /\ ret.Count = Cardinality({i \in 1..Len(series) : series[i] # NaN})
        /\ ret.Missing = Cardinality({i \in 1..Len(series) : series[i] = NaN})
        /\ ret.Count + ret.Missing = Len(series)
        /\ (ret.Count > 0 =>
               /\ ret.Mean # NaN
               /\ ret.Mean * ret.Count = 100 * SumSeq(dropna(series)))

\* m is num/den cut to the digits scale allows, rounded to the nearest
IsRounded(m, num, den, scale) ==
    /\ 2 * Abs(scale * num - m * den) <= den
    /\ (2 * Abs(scale * num - m * den) = den => m % 2 = 0)

\* C7 amended: Count and Missing count the non-missing and the missing cells
\* and add up to the row count; Missing % is Missing / rows * 100 rounded to
\* one decimal; Mean is the sum of the non-missing cells divided by Count
\* (missing cells excluded, not imputed) rounded to two decimals, and nan
\* when Count is 0; [1,2,3,None,5] gives 4, 1, 20.0 and 2.75.
C7_MeanIsRoundedQuotient ==
    ret.op = "summarize_numeric" =>
        /\ ret.Count = Cardinality({i \in 1..Len(series) : series[i] # NaN})
        /\ ret.Missing = Cardinality({i \in 1..Len(series) : series[i] = NaN})
        /\ ret.Count + ret.Missing = Len(series)
        /\ (Len(series) > 0 =>
               IsRounded(ret.MissingPct, 100 * ret.Missing, Len(series), 10))
        /\ (ret.Count > 0 =>
               /\ ret.Mean # NaN
               /\ IsRounded(ret.Mean, SumSeq(dropna(series)), ret.Count, 100))
        /\ (ret.Count = 0 => ret.Mean = NaN)
        /\ (series = <<1, 2, 3, NaN, 5>> =>
               /\ ret.Count = 4 /\ ret.Missing = 1
               /\ ret.MissingPct = 200 /\ ret.Mean = 275)

\* C7 witness: the summary of [1,2,NaN,2] was built; its mean 5/3 is
\* reported as 1.67
C7_Witness ==
    /\ ret.op = "summarize_numeric"
    /\ series = <<1, 2, NaN, 2>>
    /\ ret.Count = 3 /\ ret.Missing = 1
    /\ ret.MissingPct = 250
    /\ ret.Mean = 167

(***************************************************************************)
(* Claims about the correlation helpers (checked under CorrSpec)           *)
(***************************************************************************)
\* columns a and b of the table (a before b) are both numeric and their
\* correlation is a number whose absolute value is at least th
QualifiesAsPair(a, b, th) ==
    LET r == pearson(table[a].cells, table[b].cells)
    IN  /\ a < b
        /\ table[a].dtype = "float64" /\ table[b].dtype = "float64"
        /\ r.den2 # 0
        /\ r.num * r.num * th.d * th.d >= th.n * th.n * r.den2

\* C3: the list of high-correlation pairs holds exactly the pairs of distinct
\* numeric columns (each unordered pair once, first column before second,
\* never a column with itself) whose absolute correlation is >= the
\* threshold, equality included, each with its correlation, and the list is
\* in non-increasing order of absolute correlation.
C3_PairsAboveThresholdSorted ==
    ret.op \in {"find_highly_correlated_pairs", "correlation_summary"} =>
        LET P == ret.pairs
            th == ret.threshold
            cols == 1..Len(table)
        IN  /\ \A k \in 1..Len(P) :
                   \E a, b \in cols :
                       /\ QualifiesAsPair(a, b, th)
                       /\ P[k].v1 = ColumnLabels[a] /\ P[k].v2 = ColumnLabels[b]
                       /\ P[k].value = pearson(table[a].cells, table[b].cells)
            /\ \A a, b \in cols :
                   QualifiesAsPair(a, b, th) =>
                       Cardinality({k \in 1..Len(P) :
                           {P[k].v1, P[k].v2} = {ColumnLabels[a], ColumnLabels[b]}}) = 1
            /\ \A k \in 1..(Len(P) - 1) : AbsGE(P[k].value, P[k + 1].value)

\* C3 witness: with threshold 0.8 on the columns 1234, 4321, 1324 the list is
\* (A,B,-1), (A,C,0.8), (B,C,-0.8): two correlations sit exactly on the threshold
C3_Witness ==
    /\ ret.op = "find_highly_correlated_pairs"
    /\ ret.threshold = [n |-> 4, d |-> 5]
    /\ Len(table) = 3
    /\ Len(ret.pairs) = 3
    /\ ret.pairs[1].v1 = "A" /\ ret.pairs[1].v2 = "B" /\ ret.pairs[1].value.num < 0
    /\ ret.pairs[2].v1 = "A" /\ ret.pairs[2].v2 = "C"
    /\ 25 * ret.pairs[2].value.num * ret.pairs[2].value.num = 16 * ret.pairs[2].value.den2
    /\ ret.pairs[3].v1 = "B" /\ ret.pairs[3].v2 = "C" /\ ret.pairs[3].value.num < 0

(***************************************************************************)
(* Claims about the model comparators (ModelSpec, BestSpec)                *)
(***************************************************************************)
\* the position of the model called name in _models
PositionOf(name) == CHOOSE i \in 1..Len(models) : models[i].name = name

\* C5: the ranking of a metric (ranking_plot with ascending False, and the
\* single-metric plot) lists exactly the models that define the metric, each
\* once with its score, in non-increasing score order; models with equal
\* scores stay in insertion order; ranking_plot numbers them 1..k.
C5_RankingStableDescending ==
    ((ret.op = "ranking_plot" /\ ~ret.ascending) \/ ret.op = "plot") =>
        LET B == ret.bars
            defining == {i \in 1..Len(models) : ret.metric \in DOMAIN models[i].metrics}
        IN  /\ Len(B) = Cardinality(defining)
            /\ {B[k].name : k \in 1..Len(B)} = {models[i].name : i \in defining}
            /\ \A k \in 1..Len(B) :
                   B[k].score = models[PositionOf(B[k].name)].metrics[ret.metric]
            /\ \A k \in 1..(Len(B) - 1) : B[k].score >= B[k + 1].score
            /\ \A k, l \in 1..Len(B) :
                   (k < l /\ B[k].score = B[l].score)
                       => PositionOf(B[k].name) < PositionOf(B[l].name)
            /\ (ret.op = "ranking_plot" => ret.ranks = [k \in 1..Len(B) |-> k])

\* C5 witness: three models define acc, the first and the last inserted tie
\* at 0.8 below the second; the ranking is second, first, last
C5_Witness ==
    /\ ret.op = "ranking_plot" /\ ~ret.ascending /\ ret.metric = "acc"
    /\ Len(models) = 3
    /\ Len(ret.bars) = 3
    /\ ret.bars[1].name = models[2].name /\ ret.bars[1].score = 9
    /\ ret.bars[2].name = models[1].name /\ ret.bars[2].score = 8
    /\ ret.bars[3].name = models[3].name /\ ret.bars[3].score = 8
    /\ ret.ranks = <<1, 2, 3>>

\* C6: get_best_model(metric) returns a model that defines the metric and
\* whose score no other model's score exceeds, the first inserted among
\* those; when no model defines the metric it raises ValueError; it never
\* changes the stored results.
C6_BestModelIsFirstMaximum ==
    /\ [](ret.op = "get_best_model" =>
            LET d == comparator.models_results
                defining == {i \in 1..Len(d) : ret.metric \in DOMAIN d[i].metrics}
            IN  /\ (defining = {} <=> ret.status = "ValueError")
                /\ (defining # {} =>
                       /\ ret.status = "ok"
                       /\ \E i \in defining :
                              /\ d[i].name = ret.value
                              /\ \A j \in defining :
                                     d[j].metrics[ret.metric] <= d[i].metrics[ret.metric]
                              /\ \A j \in defining :
                                     j < i => d[j].metrics[ret.metric] < d[i].metrics[ret.metric]))
    /\ [][ret'.op = "get_best_model" => comparator' = comparator]_vars

\* C6 witness: two models tie for the best acc behind a weaker first model;
\* the earlier of the two is returned
C6_Witness ==
    /\ ret.op = "get_best_model" /\ ret.metric = "acc" /\ ret.status = "ok"
    /\ Len(comparator.models_results) = 3
    /\ \A i \in 1..3 : "acc" \in DOMAIN comparator.models_results[i].metrics
    /\ comparator.models_results[1].metrics["acc"] = 8
    /\ comparator.models_results[2].metrics["acc"] = 9
    /\ comparator.models_results[3].metrics["acc"] = 9
    /\ ret.value = comparator.models_results[2].name

\* get_best_model raised ValueError for a metric no model defines
BestModelUnknownMetricReached ==
    /\ ret.op = "get_best_model" /\ ret.status = "ValueError"
    /\ Len(comparator.models_results) > 0

(***************************************************************************)
(* Claims about the composer (checked under ComposerSpec)                  *)
(***************************************************************************)
\* C10: add_plot on a composer that already holds rows*cols plots raises
\* ValueError and leaves the composer as it was: same length, same plots,
\* same next-cell index; and an add_plot that returns normally has appended
\* its plot, so a plot is never dropped silently.
C10_AddPlotOverflowRaises ==
    ret.op = "add_plot" =>
        /\ (Len(ret.before.plots) = ret.before.rows * ret.before.cols =>
               /\ ret.status = "ValueError"
               /\ composer = ret.before
               /\ composer_len(composer) = composer_len(ret.before)
               /\ composer.plots = ret.before.plots
               /\ composer.current_idx = ret.before.current_idx)
        /\ (ret.status = "ok" =>
               /\ composer_len(composer) = composer_len(ret.before) + 1
               /\ SubSeq(composer.plots, 1, Len(ret.before.plots)) = ret.before.plots)

\* C10 witness: a 1x2 composer holding two plots refused a third
C10_Witness ==
    /\ ret.op = "add_plot"
    /\ ret.status = "ValueError"
    /\ composer.rows = 1 /\ composer.cols = 2
    /\ composer.plots = <<"scatter", "line">>
    /\ composer.current_idx = 2

\* C11: in every reachable state of a composer len(composer) equals the
\* next-cell index and lies in 0..rows*cols; the length is 0 at construction
\* and changes only in an add_plot that returns normally, which adds exactly 1
\* and returns the composer itself, so the length is the number of successful
\* add_plot calls whatever render, show and save calls come in between.
C11_LengthCountsSuccessfulAdds ==
    /\ ComposerInit => composer_len(composer) = 0
    /\ [](/\ composer_len(composer) = composer.current_idx
          /\ composer_len(composer) >= 0
          /\ composer_len(composer) <= composer.rows * composer.cols)
    /\ [][IF ret'.op = "add_plot" /\ ret'.status = "ok"
          THEN /\ composer_len(composer') = composer_len(composer) + 1
               /\ ret'.returns = "self"
          ELSE composer_len(composer') = composer_len(composer)]_vars

\* C11 witness: a 2x2 composer took three plots with a failed render in
\* between (the scatter plot was never created); its length and index are 3
C11_Witness ==
    /\ composer.rows = 2 /\ composer.cols = 2
    /\ composer_len(composer) = 3 /\ composer.current_idx = 3
    /\ ret.op = "add_plot" /\ ret.status = "ok" /\ ret.returns = "self"
    /\ plotobjs["line"].ax > 0
    /\ plotobjs["scatter"].create_args = <<>>

(***************************************************************************)
(* More claims about the wrappers (checked under WrapSpec)                 *)
(***************************************************************************)
\* the call that ends in the primed state gave a theme to a wrapper and
\* applied its style: a constructor that returned, or a set_theme
AppliesTheme(r) ==
    \/ r.op = "construct" /\ r.status = "ok"
    \/ r.op = "set_theme"

\* C12: whichever wrapper a successful constructor or a set_theme is issued
\* on, that wrapper's theme becomes the theme given, every other wrapper's
\* theme stays what it was, and the process-wide style becomes the style
\* mapped from the theme given (the last writer wins); no other call changes
\* a theme or the style.  So in every state the style is the one mapped from
\* the theme of the last such call, and each theme the last given to its wrapper.
C12_StyleIsLastWriters ==
    /\ [](AppliesTheme(ret) =>
             /\ style = VB_style_name(ret.theme)
             /\ \E s \in Slots : wrappers[s] # None /\ wrappers[s].theme = ret.theme)
    /\ [][IF AppliesTheme(ret')
          THEN \E s \in Slots :
                  /\ wrappers'[s] # None
                  /\ wrappers'[s].theme = ret'.theme
                  /\ style' = VB_style_name(ret'.theme)
                  /\ \A t \in Slots \ {s} : wrappers'[t] = wrappers[t]
          ELSE /\ style' = style
               /\ wrappers' = wrappers]_vars

\* C12 witness: wrapper 1 holds 'default', wrapper 2 was then given 'dark';
\* the style is wrapper 2's although wrapper 1 never changed its theme
C12_Witness ==
    /\ ret.op = "set_theme" /\ ret.theme = "dark"
    /\ wrappers[1] # None /\ wrappers[1].theme = "default"
    /\ wrappers[2] # None /\ wrappers[2].theme = "dark"
    /\ style = "dark_background"

(***************************************************************************)
(* Claims about the facade (checked under FacadeSpec)                      *)
(***************************************************************************)
\* C13: the facade keeps the very table object it was constructed with:
\* right after construction it holds the table passed (same object, same
\* rows, columns and cells), get_data() returns that object and not a copy,
\* len() is its row count, and no later call (set_theme, tabular_summary,
\* autoplot, detect_plot_type, quick_plot, compare_models, render, get_data,
\* len, a constructor that raises) changes the table the facade holds.
C13_TableKeptAndUntouched ==
    /\ [](Facade # None =>
             /\ (ret.op = "construct" /\ ret.status = "ok" => Facade.data = ret.data)
             /\ (ret.op = "get_data" =>
                    ret.value = Facade.data /\ ret.value.id = Facade.data.id)
             /\ (ret.op = "len" => ret.value = Facade.data.nrows))
    /\ [][Facade # None /\ ~(ret'.op = "construct" /\ ret'.status = "ok")
             => wrappers'[1].data = Facade.data]_vars

\* C13 witness: after a set_theme and a compare_models, get_data() handed
\* back table object 2 with its two rows and three columns
C13_Witness ==
    /\ ret.op = "get_data"
    /\ ret.value.id = 2 /\ ret.value.nrows = 2
    /\ ret.value.dtypes = <<"object", "float64", "bool">>
    /\ Facade.comparator # None

\* the number of columns of df whose dtype is in kinds
CountOfKind(df, kinds) == Cardinality({c \in 1..Len(df.names) : df.dtypes[c] \in kinds})

C15_DetectNumericKinds ==
    ret.op = "detect_plot_type" /\ ret.status = "ok" =>
        LET df == Facade.data
            tx == column_dtype(df, ret.x)
        IN  /\ (ret.y = "None" /\ tx \in {"int64", "float64"} => ret.value = "hist")
            /\ (ret.y = "None" /\ tx = "object" => ret.value = "bar")
            /\ (ret.y # "None" /\ tx \in {"int64", "float64"}
                   /\ column_dtype(df, ret.y) \in {"int64", "float64"}
                   => ret.value = "scatter")

\* C16 as stated: detect_plot_type(x, y) with a categorical x and a numeric
\* y is 'box'.
C16_DetectBoxForCategoricalByNumeric ==
    ret.op = "detect_plot_type" /\ ret.status = "ok" /\ ret.y # "None" =>
        (column_dtype(Facade.data, ret.x) = "object"
            /\ column_dtype(Facade.data, ret.y) \in {"int64", "float64"}
            => ret.value = "box")

\* C17: a constructed facade holds a DiagnosticPlotter, a SummaryGenerator
\* and a QuickPlotter, each over the facade's own table object; its
\* comparator is None when the constructor returns, after a compare_models
\* call it is a comparator (not None) over the results passed to that call,
\* and no other call changes it.
C17_FacadeComposition ==
    /\ [](Facade # None =>
             /\ Facade.diagnostic.kind = "DiagnosticPlotter"
             /\ Facade.diagnostic.data = Facade.data
             /\ Facade.summary.kind = "SummaryGenerator"
             /\ Facade.summary.data = Facade.data
             /\ Facade.plotter.kind = "QuickPlotter"
             /\ Facade.plotter.data = Facade.data
             /\ (ret.op = "construct" /\ ret.status = "ok" => Facade.comparator = None)
             /\ (ret.op = "compare_models" =>
                    /\ Facade.comparator # None
                    /\ Facade.comparator.kind = "ModelComparator"
                    /\ Facade.comparator.models_results = ret.results))
    /\ [][Facade # None /\ ret'.op # "compare_models"
             /\ ~(ret'.op = "construct" /\ ret'.status = "ok")
             => wrappers'[1].comparator = Facade.comparator]_vars

\* C17 witness: a compare_models call that raised KeyError (its metric is no
\* column of the results) still left the facade a comparator over the
\* results passed to it
C17_Witness ==
    /\ ret.op = "compare_models" /\ ret.results # <<>> /\ ret.status = "KeyError"
    /\ Facade.comparator.models_results = ret.results
    /\ Facade.diagnostic.data.id = 1

(***************************************************************************)
(* Claims about the plot objects (checked under PlotSpec)                  *)
(***************************************************************************)
\* C18: apply_theme(name) returns normally exactly when name is a known
\* theme, and then the plot's theme is name; for any other name it raises
\* ValueError and the plot, its theme included, is as it was before the call.
C18_ApplyThemeOnlyOnSuccess ==
    ret.op = "apply_theme" =>
        /\ (ret.theme_name \in KnownThemes =>
               /\ ret.status = "ok"
               /\ plotobjs[ret.plot].theme = ret.theme_name)
        /\ (ret.theme_name \notin KnownThemes =>
               /\ ret.status = "ValueError"
               /\ plotobjs[ret.plot].theme = ret.before.theme
               /\ plotobjs[ret.plot] = ret.before)
        /\ (plotobjs[ret.plot].theme # ret.before.theme => ret.status = "ok")

\* C18 witness: a created scatter plot themed 'minimal' was asked for the
\* theme 'nonexistent', the call raised and the theme is still 'minimal'
C18_Witness ==
    /\ ret.op = "apply_theme" /\ ret.plot = "scatter"
    /\ ret.theme_name = "nonexistent" /\ ret.status = "ValueError"
    /\ plotobjs["scatter"].theme = "minimal"
    /\ plotobjs["scatter"].create_args # <<>>

(***************************************************************************)
(* More claims about the correlation helpers (checked under CorrSpec)      *)
(***************************************************************************)
\* the position of a column label among the labels
LabelIndex(l) == CHOOSE i \in 1..Len(ColumnLabels) : ColumnLabels[i] = l

\* pair p was met before pair q by the scan: find_highly_correlated_pairs
\* scans column by column (second label first), correlation_summary row by row
MetBefore(op, p, q) ==
    IF op = "find_highly_correlated_pairs"
    THEN \/ LabelIndex(p.v2) < LabelIndex(q.v2)
         \/ p.v2 = q.v2 /\ LabelIndex(p.v1) < LabelIndex(q.v1)
    ELSE \/ LabelIndex(p.v1) < LabelIndex(q.v1)
         \/ p.v1 = q.v1 /\ LabelIndex(p.v2) < LabelIndex(q.v2)

Contains(sub, t) == \E i \in 1..(Len(t) - Len(sub) + 1) : SubSeq(t, i, i + Len(sub) - 1) = sub

\* the library class the claim names for a foreign exception class
ClaimedClass(cls) ==
    CASE cls = "KeyError" -> "ColumnNotFoundError"
      [] cls \in {"ValueError", "UnicodeError"} -> "DataValidationError"
      [] cls = "TypeError" -> "InvalidParameterError"
      [] OTHER -> "PlotCreationError"

LibraryClasses ==
    {"LightenPlotError", "DataValidationError", "ColumnNotFoundError",
     "PlotCreationError", "InvalidParameterError", "EmptyDataError",
     "ExportError"}

\* C20: the call returns the wrapped function's result or raises a library
\* error; a library error raised inside comes out unchanged, and any other
\* exception (a class deriving from Exception) comes out as the library class
\* named for it, carrying the original message, the text of str(e).
C20_OnlyLibraryErrorsEscape ==
    (ret.op = "wrapper" /\ (ret.outcome.kind = "raise" => issubclass(ret.outcome.cls, "Exception"))) =>
        LET o == ret.outcome
            r == ret.result
        IN  /\ (o.kind = "return" => r = o)
            /\ (o.kind = "raise" =>
                   /\ r.kind = "raise"
                   /\ r.cls \in LibraryClasses
                   /\ (o.cls \in LibraryClasses => r = o)
                   /\ (o.cls \notin LibraryClasses =>
                          /\ r.cls = ClaimedClass(o.cls)
                          /\ Contains(o.str, r.str)))

\* C21: a call of a function wrapped by safe_export returns the wrapped
\* function's result, or raises ExportError: every exception raised inside (a
\* class deriving from Exception: an I/O error or any other, a library error
\* included) comes out as an ExportError raised from it, whose text holds the
\* text of the original and whose suggestion is not empty.
C21_ExportErrorsOnly ==
    (ret.op = "safe_export" /\ (ret.outcome.kind = "raise" => issubclass(ret.outcome.cls, "Exception"))) =>
        LET o == ret.outcome
            r == ret.result
        IN  /\ (o.kind = "return" => r = o)
            /\ (o.kind = "raise" =>
                   /\ r.kind = "raise"
                   /\ r.cls = "ExportError"
                   /\ r.cause = o
                   /\ Contains(o.str, r.str)
                   /\ r.suggestion # <<>>
                   /\ Contains(r.suggestion, r.str))

\* C21 witness: the export raised PermissionError('q') and an ExportError
\* holding q came out
C21_Witness ==
    /\ ret.op = "safe_export"
    /\ ret.outcome.kind = "raise"
    /\ ret.outcome.cls = "PermissionError" /\ ret.outcome.str = <<"q">>
    /\ ret.result.cls = "ExportError"
    /\ Contains(<<"q">>, ret.result.str)

(***************************************************************************)
(* Claims about the validators (checked under FacadeSpec and ErrSpec)      *)
(***************************************************************************)
\* C22: validate_numeric_column raises ColumnNotFoundError when the column is
\* not in the table, whatever else holds; raises DataValidationError when the
\* column is there with a text dtype; returns normally when it is there with
\* an integer or float dtype (and with bool, which pandas counts as numeric);
\* and the table is the same before and after.
C22_ValidateNumericColumn ==
    /\ [](ret.op = "validate_numeric_column" =>
             LET df == Facade.data IN
             /\ (~has_column(df, ret.column) => ret.status = "ColumnNotFoundError")
             /\ (has_column(df, ret.column) =>
                    /\ (column_dtype(df, ret.column) = "object"
                           => ret.status = "DataValidationError")
                    /\ (column_dtype(df, ret.column) \in {"int64", "float64", "bool"}
                           => ret.status = "ok")))
    /\ [][ret'.op = "validate_numeric_column" => wrappers' = wrappers]_vars

\* C22 witness: on the table with a text, a float and a bool column, the text
\* column A was refused with DataValidationError
C22_Witness ==
    /\ ret.op = "validate_numeric_column"
    /\ ret.column = "A" /\ ret.status = "DataValidationError"
    /\ Facade.data.dtypes = <<"object", "float64", "bool">>

\* C23: log_error returns normally whatever happens to the log file (it opens
\* and is written, opening fails, or writing fails); the error the caller is
\* handling is the same after the call, and the entries already in the log
\* file stay.
C23_LogErrorNeverRaises ==
    /\ [](ret.op = "log_error" =>
             /\ ret.result = Returned("None")
             /\ ret.outcome = wrapped
             /\ (ret.io = "ok" => logfile[Len(logfile)] = create_error_report(wrapped)))
    /\ [][ret'.op = "log_error" =>
             /\ wrapped' = wrapped
             /\ Len(logfile') >= Len(logfile)
             /\ SubSeq(logfile', 1, Len(logfile)) = logfile]_vars

\* C23 witness: the log file could not be opened (no permission) while a
\* ValueError was being handled, and log_error returned
C23_Witness ==
    /\ ret.op = "log_error"
    /\ ret.io = "open:PermissionError"
    /\ ret.outcome.cls = "ValueError"
    /\ ret.result.kind = "return"
    /\ logfile = <<>>

(***************************************************************************)
(* More claims about the correlation matrix (checked under CorrSpec)       *)
(***************************************************************************)
\* C24: for a table with n numeric columns, calculate_correlation_matrix
\* returns an n-by-n matrix indexed by exactly the numeric columns, in table
\* order; entry [i][j] equals entry [j][i]; and every diagonal entry is
\* exactly 1.0 (num / sqrt(den2) with num > 0 and num * num = den2).
C24_SquareSymmetricUnitDiagonal ==
    ret.op = "calculate_correlation_matrix" =>
        LET n == Cardinality({c \in 1..Len(table) : table[c].dtype = "float64"})
            M == ret.value
        IN  /\ Len(M) = n /\ \A i \in 1..n : Len(M[i]) = n
            /\ Len(ret.index) = n
            /\ \A c \in 1..Len(table) :
                   table[c].dtype = "float64"
                       <=> \E k \in 1..n : ret.index[k] = ColumnLabels[c]
            /\ \A i, j \in 1..n : M[i][j] = M[j][i]
            /\ \A i \in 1..n :
                   ~isna(M[i][i]) /\ M[i][i].num > 0
                   /\ M[i][i].num * M[i][i].num = M[i][i].den2

\* the place of a panel kind in the fixed order of autoplot
PanelRank(kind) ==
    CASE kind = "distributions" -> 1 [] kind = "correlations" -> 2
      [] kind = "missing" -> 3 [] kind = "target" -> 4
      [] kind = "categories" -> 5 [] kind = "outliers" -> 6

\* C25: autoplot(target, max_plots) draws at most max_plots panels and at most
\* 6; the panels come in the fixed order distributions, correlations,
\* missing-data, target, categories, outliers, each kind at most once and only
\* when its data precondition holds; the k-th panel takes index k, and every
\* index lies within 1..2*n_rows with n_rows = min(3, (max_plots + 1) // 2).
C25_AutoplotPanels ==
    ret.op = "autoplot" =>
        LET P == ret.panels
            df == Facade.data
            n == CountOfKind(df, {"int64", "float64"})
            rows == IF (ret.max_plots + 1) \div 2 < 3 THEN (ret.max_plots + 1) \div 2 ELSE 3
        IN  /\ Len(P) <= ret.max_plots /\ Len(P) <= 6
            /\ \A k \in 1..Len(P) :
                   /\ P[k].position = k
                   /\ P[k].position >= 1 /\ P[k].position <= 2 * rows
                   /\ (k > 1 => PanelRank(P[k - 1].kind) < PanelRank(P[k].kind))
                   /\ (P[k].kind \in {"distributions", "outliers"} => n >= 1)
                   /\ (P[k].kind = "correlations" => n > 1)
                   /\ (P[k].kind = "target" =>
                          ret.target # "None" /\ has_column(df, ret.target))
                   /\ (P[k].kind = "categories" => CountOfKind(df, {"object"}) >= 1)

\* C25 witness: with max_plots = 3 on the table of a text, a float and a bool
\* column and target A, the three panels distributions, missing-data and
\* target were drawn and the categories and outliers panels were cut
C25_Witness ==
    /\ ret.op = "autoplot"
    /\ ret.max_plots = 3 /\ ret.target = "A"
    /\ Facade.data.dtypes = <<"object", "float64", "bool">>
    /\ Len(ret.panels) = 3
    /\ ret.panels[3] = [kind |-> "target", position |-> 3]

(***************************************************************************)
(* More claims about the composer (checked under ComposerSpec)             *)
(***************************************************************************)
\* C26: render, show and save draw the i-th added plot on the i-th cell, in
\* insertion order, with the create arguments that plot recorded last; every
\* added plot is drawn, none is skipped; and the three calls leave the plot
\* list, its order and every plot's recorded create arguments as they were.
C26_RenderDrawsEveryPlot ==
    /\ [](ret.op \in {"render", "show", "save"} =>
             /\ Len(ret.rendered) = Len(composer.plots)
             /\ \A i \in 1..Len(ret.rendered) :
                    ret.rendered[i] = [cell |-> i, plot |-> composer.plots[i],
                                       args |-> plotobjs[composer.plots[i]].create_args])
    /\ [][ret'.op \in {"render", "show", "save"} =>
             /\ composer'.plots = composer.plots
             /\ \A p \in PlotIds : plotobjs'[p].create_args = plotobjs[p].create_args]_vars

(***************************************************************************)
(* Claims about DataValidator (checked under ValidatorSpec)                *)
(***************************************************************************)
CheckOps == {"check_not_empty", "check_columns", "check_numeric", "check_dimensions"}

\* the check of one column fails on table df
ColumnCheckFails(df, op, column) ==
    \/ ~has_column(df, column)
    \/ op = "check_numeric" /\ column_dtype(df, column) = "object"

\* the data is empty: None, a list or array of length 0, a table with no row
\* or no column
IsEmptyData(data) ==
    \/ data = None
    \/ data.kind = "DataFrame" /\ (data.nrows = 0 \/ Len(data.names) = 0)
    \/ data.kind \in {"list", "ndarray"} /\ data.len = 0

IsZeroDimArray(data) == data # None /\ data.kind = "ndarray" /\ data.ndim = 0

\* every check that returns appends its failures, in the order of the calls
\* and of the columns within a call, to the errors recorded before it, which
\* stay in place; is_valid() is true exactly when nothing is recorded;
\* validate() raises the first recorded error and nothing when there is none
ValidatorRecordsInOrder ==
    /\ [][validator # None /\ ret'.op # "DataValidator" =>
             /\ validator'.data = validator.data
             /\ Len(validator'.errors) >= Len(validator.errors)
             /\ SubSeq(validator'.errors, 1, Len(validator.errors)) = validator.errors
             /\ (ret'.op \notin CheckOps => validator'.errors = validator.errors)]_vars
    /\ [][ret'.op \in CheckOps /\ ret'.status = "ok" =>
             LET new == SubSeq(validator'.errors, Len(validator.errors) + 1,
                               Len(validator'.errors))
                 data == validator.data
                 Fails(c) == ColumnCheckFails(data, ret'.op, c)
             IN  /\ (ret'.op = "check_not_empty" =>
                        new = IF IsEmptyData(data)
                              THEN <<[cls |-> "EmptyDataError", about |-> "data"]>>
                              ELSE <<>>)
                 /\ (ret'.op = "check_dimensions" =>
                        Len(new) <= 1
                        /\ \A k \in 1..Len(new) : new[k].cls = "DimensionMismatchError")
                 /\ (ret'.op \in {"check_columns", "check_numeric"} =>
                        IF data # None /\ data.kind = "DataFrame"
                        THEN /\ [k \in 1..Len(new) |-> new[k].about] = SelectSeq(ret'.arg, Fails)
                             /\ \A k \in 1..Len(new) :
                                    new[k].cls = IF has_column(data, new[k].about)
                                                 THEN "DataValidationError"
                                                 ELSE "ColumnNotFoundError"
                        ELSE new = <<>>)]_vars
    /\ [](ret.op = "is_valid" => (ret.value <=> validator.errors = <<>>))
    /\ [](ret.op = "validate" =>
             IF validator.errors = <<>> THEN ret.status = "ok"
             ELSE ret.status = "raise" /\ ret.error = validator.errors[1])

\* C27 as stated: failed checks are recorded in call order and never removed,
\* is_valid() and validate() read the record as described, and no check_*
\* method ever raises: each returns the validator it was called on.
C27_ChecksNeverRaise ==
    /\ ValidatorRecordsInOrder
    /\ [](ret.op \in CheckOps => ret.status = "ok" /\ ret.returns = "self")

\* C27 amended: failed checks are recorded in call order and never removed,
\* is_valid() and validate() read the record as described, and a check_*
\* method returns the validator it was called on, except check_not_empty on
\* a 0-dimensional array, which raises TypeError and records nothing; no
\* check_* method raises a library error.
C27_ChecksRaiseNoLibraryError ==
    /\ ValidatorRecordsInOrder
    /\ [](ret.op \in CheckOps =>
             IF ret.op = "check_not_empty" /\ IsZeroDimArray(validator.data)
             THEN ret.status = "TypeError" /\ ret.returns = "nothing"
             ELSE ret.status = "ok" /\ ret.returns = "self")
    /\ [][ret'.op \in CheckOps /\ ret'.status # "ok" => validator' = validator]_vars

\* C27 witness: on the table of a text, a float and a bool column two checks
\* failed, the absent column first and the text column second, and validate()
\* raised the first
C27_Witness ==
    /\ ret.op = "validate" /\ ret.status = "raise"
    /\ ret.error = [cls |-> "ColumnNotFoundError", about |-> "nope"]
    /\ Len(validator.errors) >= 2
    /\ validator.errors[2] = [cls |-> "DataValidationError", about |-> "A"]

(***************************************************************************)
(* More claims about the mutable ModelComparator (checked under ModelSpec) *)
(***************************************************************************)
\* the names the comparator holds
HeldNames == {models[i].name : i \in 1..Len(models)}

\* C28: after any sequence of add_model and remove_model calls, len() is the
\* number of distinct names held and `name in comparator` tells whether the
\* name is held; a name is held from its add_model until its remove_model:
\* add_model makes its name held with the metrics given and changes no other
\* name, adding 1 to the length for a new name and 0 for a held one;
\* remove_model makes its name not held and changes no other name, and for a
\* name not held it changes nothing and raises nothing; no other call changes
\* what is held.
C28_LenAndMembership ==
    /\ [](/\ (ret.op = "len" => ret.value = Cardinality(HeldNames))
          /\ (ret.op = "contains" => (ret.value <=> ret.name \in HeldNames))
          /\ (ret.op \in {"add_model", "remove_model"} => ret.status = "ok"))
    /\ [][ret'.op = "add_model" =>
             LET after == {models'[i].name : i \in 1..Len(models')} IN
             /\ after = HeldNames \cup {ret'.name}
             /\ Cardinality({i \in 1..Len(models') : models'[i].name = ret'.name}) = 1
             /\ \A i \in 1..Len(models') :
                    models'[i].name = ret'.name => models'[i].metrics = ret'.metrics
             /\ Len(models') = Len(models) + (IF ret'.name \in HeldNames THEN 0 ELSE 1)]_vars
    /\ [][ret'.op = "remove_model" =>
             /\ {models'[i].name : i \in 1..Len(models')} = HeldNames \ {ret'.name}
             /\ (ret'.name \notin HeldNames => models' = models)]_vars
    /\ [][ret'.op \notin {"add_model", "remove_model"} => models' = models]_vars

\* C28 witness: add_model of a name already held replaced its metrics and the
\* comparator still holds two models
C28_Witness ==
    /\ ret.op = "add_model" /\ ret.held
    /\ Len(models) = 2
    /\ \E i \in 1..2 : models[i].name = ret.name /\ models[i].metrics = [m \in {"acc"} |-> 9]

(***************************************************************************)
(* More claims about the themes of the wrappers (checked under WrapSpec)   *)
(***************************************************************************)
\* C29: for a theme name outside the lookup table (default, minimal, dark,
\* colorful), a construction that succeeds and a set_theme raise nothing,
\* leave the given name as the theme of a wrapper, and leave the process-wide
\* style equal to the style the theme 'default' applies.
C29_UnknownThemeAppliesDefaultTheme ==
    (/\ ret.op \in {"construct", "set_theme"}
     /\ ret.theme \notin {"default", "minimal", "dark", "colorful"}) =>
        /\ ret.status = "ok"
        /\ \E s \in Slots : wrappers[s] # None /\ wrappers[s].theme = ret.theme
        /\ style = VB_style_name("default")

(***************************************************************************)
(* Claims about plot_context (checked under ContextSpec)                   *)
(***************************************************************************)
\* C30: when the block ends with an exception and cleanup_on_error is True,
\* exactly the figures opened since the block was entered are closed, and the
\* figures that were open at entry (and still are) stay open; on a normal end,
\* or with cleanup_on_error False, no figure is closed; and in every case the
\* exception is not suppressed.
C30_ClosesExactlyTheNewFigures ==
    ret.op = "exit" =>
        /\ ret.suppress = FALSE
        /\ IF ret.exc_type # "None" /\ ret.cleanup_on_error
           THEN figures = ret.before \ ret.opened
           ELSE figures = ret.before

====
